---- MODULE Spec2Model ----
(***************************************************************************)
(* Model of sozu's main<->worker supervision plane:                        *)
(*   - bin/src/worker.rs      start_workers, start_worker,                 *)
(*                            fork_main_into_worker, begin_worker_process  *)
(*   - command/src/scm_socket.rs   ScmSocket, Listeners                    *)
(*   - command/src/command.rs      CommandRequest / CommandResponse        *)
(* and of the command server's fan-out of proxy orders.                    *)
(***************************************************************************)
EXTENDS Integers, Sequences, FiniteSets, TLC

\* ------------------------------------------------------------------ bounds
MaxWorkers == 2      \* largest worker_count / number of worker ids
MaxListeners == 3    \* largest number of listeners (http + tls + tcp) of a Listeners value
MaxClusters == 2     \* cluster ids that a ConfigState may hold
MaxVersion == 1      \* largest protocol version a peer puts on the wire
MaxArgs == 2         \* most values given to one option of the command line
MaxClients == 2      \* CLI connections of the command server
MaxRequests == 2     \* requests the CLIs send, all connections together
MaxCloses == 2       \* calls of Listeners::close on one value
MaxTagLen == 6       \* longest string given to parse_tags, in characters

\* ------------------------------------------------------- program constants
MAX_FDS_OUT == 200
MAX_BYTES_OUT == 4096
PROTOCOL_VERSION == 0

\* ----------------------------------------------------------------- helpers
None == [tag |-> "None"]
Some(x) == [tag |-> "Some", value |-> x]
Ok(x) == [tag |-> "Ok", value |-> x]
Err(e) == [tag |-> "Err", error |-> e]
Panic(e) == [tag |-> "Panic", error |-> e]

Min(a, b) == IF a < b THEN a ELSE b

SeqMap(f(_), s) == [i \in 1..Len(s) |-> f(s[i])]

RECURSIVE SortedSeq(_)
SortedSeq(S) ==
    IF S = {} THEN <<>>
    ELSE LET m == CHOOSE x \in S : \A y \in S : x <= y
         IN <<m>> \o SortedSeq(S \ {m})

Range(s) == {s[i] : i \in 1..Len(s)}

WorkerIds == 0..(MaxWorkers - 1)

\* ------------------------------------------------------------- ConfigState
\* A ConfigState is the set of cluster ids it holds.
ClusterIds == 1..MaxClusters
ConfigStates == SUBSET ClusterIds

\* ConfigState::new()
ConfigState_new == {}

\* serde_json::to_writer(&mut state_file, state): the JSON text, as tokens.
\* BTreeMap keys are written in ascending order.
state_to_json(s) ==
    <<(<<"{">>)>> \o [i \in 1..Cardinality(s) |-> <<"cluster", SortedSeq(s)[i]>>] \o <<(<<"}">>)>>

\* serde_json::from_reader(file): parses what the reader yields; a text that
\* is not one complete JSON object (empty, or cut at the front) is an error.
state_from_json(text) ==
    IF /\ Len(text) >= 2
       /\ text[1] = <<"{">>
       /\ text[Len(text)] = <<"}">>
       /\ \A i \in 2..(Len(text) - 1) : Len(text[i]) = 2
    THEN Ok({text[i][2] : i \in 2..(Len(text) - 1)})
    ELSE Err("could not parse configuration state data")

\* --------------------------------------------------- file descriptor tables
\* A process's fd table is a sequence: fd n is entry n+1.  An entry is the
\* kernel object the fd refers to, or <<"closed">>.
Stdio == << <<"stdin">>, <<"stdout">>, <<"stderr">> >>
Closed == <<"closed">>
FdObject(table, fd) ==
    IF fd + 1 \in DOMAIN table THEN table[fd + 1] ELSE Closed

\* ---------------------------------------------------------------- Listeners
\* SocketAddr: 127.0.0.<ip>:808<port>
Addr(ip, port) == [ip |-> ip, port |-> port]

\* A Listeners value with h http, t tls and c tcp entries, whose fds are the
\* main's descriptors following stdio, each open on its own listening socket.
ListenersOf(h, t, c) ==
    [http |-> [i \in 1..h |-> <<Addr(1, i), Len(Stdio) + i - 1>>],
     tls  |-> [i \in 1..t |-> <<Addr(2, i), Len(Stdio) + h + i - 1>>],
     tcp  |-> [i \in 1..c |-> <<Addr(3, i), Len(Stdio) + h + t + i - 1>>]]

ListenerCounts ==
    {n \in (0..MaxListeners) \X (0..MaxListeners) \X (0..MaxListeners) :
        n[1] + n[2] + n[3] <= MaxListeners}
ListenersSet == {ListenersOf(n[1], n[2], n[3]) : n \in ListenerCounts}

EmptyListeners == ListenersOf(0, 0, 0)

\* a Listeners value with one fd more than a message is said to take
OversizedListeners == ListenersOf(0, 0, MAX_FDS_OUT + 1)

Kinds == {"http", "tls", "tcp"}

TotalLen(l) == Len(l.http) + Len(l.tls) + Len(l.tcp)

\* the main's fd table when it holds the fds of the Listeners l
MainFdTable(l) == Stdio \o [j \in 1..TotalLen(l) |-> <<"listener", j>>]

\* the worker's fd table at startup: stdio and the three inherited fds
WorkerFdTable == Stdio \o << <<"channel">>, <<"scm">>, <<"state_file">> >>

\* serde's text form of a SocketAddr and its inverse (FromStr)
addr_to_string(a) == <<"127.0.0", a.ip, ":", 808, a.port>>
addr_from_string(s) == [ip |-> s[2], port |-> s[5]]

\* length in bytes of the JSON text of ListenersCount
\* {"http":[..],"tls":[..],"tcp":[..]}, an address being "127.0.0.i:808p"
ListLen(n) == IF n = 0 THEN 0 ELSE 16 * n + (n - 1)
sidecar_bytes(lc) == 29 + ListLen(Len(lc.http)) + ListLen(Len(lc.tls)) + ListLen(Len(lc.tcp))

\* ---------------------------------------------------------------- ScmSocket
Zip(a, b) == [i \in 1..Min(Len(a), Len(b)) |-> <<a[i], b[i]>>]

\* Rust's arr[from..to] on an array of `len` entries panics unless
\* from <= to <= len
SliceOk(from, to, len) == from <= to /\ to <= len
Slice(arr, from, to) == [i \in 1..(to - from) |-> arr[from + i]]

\* ScmSocket::send_msg: the message sendmsg puts on the socket.  The kernel
\* turns each fd of the SCM_RIGHTS control message into a reference to the
\* object it is open on; a closed fd makes sendmsg fail (EBADF).
send_msg(buf, fds, table) ==
    IF \E i \in 1..Len(fds) : FdObject(table, fds[i]) = Closed
    THEN Err("EBADF")
    ELSE Ok([body   |-> buf.text,
             bytes  |-> buf.bytes,
             rights |-> [i \in 1..Len(fds) |-> FdObject(table, fds[i])]])

First(t) == t[1]
Second(t) == t[2]

\* send_listeners with the fds gathered tls first
send_listeners_tls_first(l, table) ==
    LET listeners_count ==
            [http |-> SeqMap(First, l.http),
             tls  |-> SeqMap(First, l.tls),
             tcp  |-> SeqMap(First, l.tcp)]
        message ==
            [text  |-> [http |-> SeqMap(addr_to_string, listeners_count.http),
                        tls  |-> SeqMap(addr_to_string, listeners_count.tls),
                        tcp  |-> SeqMap(addr_to_string, listeners_count.tcp)],
             bytes |-> sidecar_bytes(listeners_count)]
        v == SeqMap(Second, l.tls) \o SeqMap(Second, l.http) \o SeqMap(Second, l.tcp)
    IN send_msg(message, v, table)

\* ScmSocket::send_listeners
send_listeners(l, table) ==
    LET listeners_count ==
            [http |-> SeqMap(First, l.http),
             tls  |-> SeqMap(First, l.tls),
             tcp  |-> SeqMap(First, l.tcp)]
        message ==
            [text  |-> [http |-> SeqMap(addr_to_string, listeners_count.http),
                        tls  |-> SeqMap(addr_to_string, listeners_count.tls),
                        tcp  |-> SeqMap(addr_to_string, listeners_count.tcp)],
             bytes |-> sidecar_bytes(listeners_count)]
        v == SeqMap(Second, l.http) \o SeqMap(Second, l.tls) \o SeqMap(Second, l.tcp)
    IN send_msg(message, v, table)

\* ScmSocket::rcv_msg on message m of which the kernel delivers the first k
\* fds (recvmsg cuts the SCM_RIGHTS list, MSG_CTRUNC, when the receiver
\* cannot take them all).  The delivered fds are installed at the end of
\* the receiver's table; `fds` are the MAX_FDS_OUT places of the caller.
rcv_msg(m, k, table) ==
    LET fd_count == Min(k, MAX_FDS_OUT)
    IN [bytes    |-> Min(m.bytes, MAX_BYTES_OUT),
        fd_count |-> fd_count,
        fds      |-> [i \in 1..MAX_FDS_OUT |->
                         IF i <= fd_count THEN Len(table) + i - 1 ELSE 0],
        table    |-> table \o [i \in 1..k |-> m.rights[i]]]

\* ScmSocket::receive_listeners
receive_listeners(m, k, table) ==
    LET r == rcv_msg(m, k, table)
        received_fds == r.fds
        file_descriptor_length == r.fd_count
    IN IF r.bytes < m.bytes
       THEN Err("Could not deserialize utf8 string into listeners")
       ELSE
       LET listeners_count ==
               [http |-> SeqMap(addr_from_string, m.body.http),
                tls  |-> SeqMap(addr_from_string, m.body.tls),
                tcp  |-> SeqMap(addr_from_string, m.body.tcp)]
           index1 == 0
           len1 == Len(listeners_count.http)
           index2 == index1 + len1
           len2 == Len(listeners_count.tls)
           index3 == index2 + len2
       IN IF ~SliceOk(index1, index1 + len1, MAX_FDS_OUT)
          THEN Panic("range end index out of range")
          ELSE IF ~SliceOk(index2, index2 + len2, MAX_FDS_OUT)
          THEN Panic("range end index out of range")
          ELSE IF ~SliceOk(index3, file_descriptor_length, MAX_FDS_OUT)
          THEN Panic("slice index starts after its end")
          ELSE Ok([http |-> Zip(listeners_count.http,
                                Slice(received_fds, index1, index1 + len1)),
                   tls  |-> Zip(listeners_count.tls,
                                Slice(received_fds, index2, index2 + len2)),
                   tcp  |-> Zip(listeners_count.tcp,
                                Slice(received_fds, index3, file_descriptor_length))])

\* Listeners::close: every fd of the value is closed in the table
Listeners_close(l, table) ==
    LET fds == Range(SeqMap(Second, l.http)) \cup Range(SeqMap(Second, l.tls))
                 \cup Range(SeqMap(Second, l.tcp))
    IN [i \in DOMAIN table |-> IF (i - 1) \in fds THEN Closed ELSE table[i]]

\* ------------------------------------------------------------------- state
VARIABLES
    \* --- the spawn of workers (bin/src/worker.rs)
    mode,           \* the entry point called: "start_workers" | "start_worker"
    config,         \* the main's Config
    index,          \* id of the worker being spawned (the loop index)
    ppc,            \* position of the main in start_workers/fork_main_into_worker
    state,          \* the ConfigState passed to fork_main_into_worker
    listeners,      \* the Option<Listeners> passed to fork_main_into_worker
    pfdt,           \* fd table of the main (stdio and listening sockets)
    state_file,     \* per worker: the temporary state file
    chan,           \* per worker: frames in flight on the framed channel, main to worker
    main_end,       \* per worker: the main's end of the channel: "none" | "blocking" | "nonblocking" | "closed"
    scm,            \* per worker: messages in flight on the SCM socket
    send_result,    \* per worker: what send_listeners returned
    workers,        \* the Vec<Worker> of start_workers
    ret,            \* what the entry point returned
    trace,          \* what the main did towards the workers, in order
    sockets,        \* per worker: the four ends of its two socket pairs, in the main
    args,           \* per worker: the command line the child execs
    wpc,            \* per worker: position in begin_worker_process
    config_state,   \* per worker: the ConfigState it parsed
    worker_config,  \* per worker: the Config it read
    scm_listeners,  \* per worker: what receive_listeners returned
    wfdt,           \* per worker: its fd table
    wtrace,         \* per worker: the steps of begin_worker_process done, in order
    worker_end,     \* per worker: the worker's end of the channel: "none" | "blocking" | "nonblocking"
    \* --- the control protocol (command/src/command.rs) and the command server
    cli_pc,         \* the CLI: "off" | "idle" | "waiting" | "closed"
    cli_sent,       \* the CommandRequest the CLI serialized last
    wire_req,       \* JSON envelopes in flight, CLI to main
    decoded,        \* what the main decoded for the request at hand, with the value sent
    main_state,     \* the main's ConfigState
    task,           \* the pending fan-out task
    last_task,      \* the fan-out task completed for the request at hand
    to_worker,      \* per worker: proxy orders in flight, main to worker
    processing,     \* per worker: it answered Processing to the order at hand
    from_worker,    \* per worker: replies in flight, worker to main
    wire_resp,      \* JSON envelopes in flight, main to CLI
    resp_sent,      \* the CommandResponse values of wire_resp
    cli_recv,       \* what the CLI decoded last for the request at hand, with the value sent
    \* --- the command server with several clients (spec sections 4.5, 5)
    cl_sent,        \* per client: how many of its requests the main has read
    cl_busy,        \* per client: the request that holds back the reading of its next one
    cl_resp,        \* per client: the responses the main wrote to it, in order
    srv_tasks,      \* the pending-task entries, by request id
    srv_done,       \* the tasks completed, by request id
    srv_config,     \* the main's ConfigState
    srv_applied,    \* by request id: how many times its order was applied
    wk_gone,        \* per worker: the main has seen its channel close
    wk_inflight,    \* per worker: the in-flight request table of its handle
    \* --- the rolling upgrade of a worker (spec sections 4.4, 4.6)
    run_state,      \* per worker id: the run state of its handle, "None" without handle
    up_pc,          \* position in the upgrade
    up_old,         \* the worker being replaced
    up_orders,      \* per worker id: the stop orders and signals sent to it, in order
    \* --- the command line of the CLI (bin/src/cli.rs)
    tls_argv,       \* the values given to --tls-versions
    tls_pos,        \* how many of them clap has handed to the value parser
    tls_versions,   \* the Vec<TlsVersion> parsed so far, or the error
    tags_in,        \* the string given to parse_tags, None without one
    tags_out,       \* what parse_tags returned for it, None before the call
    exec_in,        \* the id start_worker was given, the child's fds, the buffer sizes
    exec_argv,      \* the arguments the child gives to exec, <<>> before it builds them
    exec_parsed,    \* what clap made of them in the worker, None before
    \* --- a Listeners value and an ScmSocket (command/src/scm_socket.rs)
    lst,            \* the Listeners value
    lst_call,       \* the last call made on it; of a get_*: its result and the value before
    lst_got,        \* the fds the get_* calls returned, in order, each with its closes then
    lst_closes,     \* per fd: how many times close() closed it
    sock,           \* the ScmSocket value, fd -1 before ScmSocket::new
    sock_file,      \* O_NONBLOCK of the socket's open file description
    sock_last,      \* the mode last asked for: "none" | "blocking" | "nonblocking"
    sock_io         \* the flags of the last send_msg/rcv_msg, with the mode asked for then

spawnVars == <<mode, config, index, ppc, state, listeners, pfdt, state_file, chan,
               main_end, scm, send_result, workers, ret, trace, sockets, args>>
workerVars == <<wpc, config_state, worker_config, scm_listeners, wfdt, wtrace, worker_end>>

commandVars == <<cli_pc, cli_sent, wire_req, decoded, main_state, task, last_task,
                 to_worker, processing, from_worker, wire_resp, resp_sent, cli_recv>>

serverVars == <<cl_sent, cl_busy, cl_resp, srv_tasks, srv_done, srv_config,
               srv_applied, wk_gone, wk_inflight>>

upgradeVars == <<run_state, up_pc, up_old, up_orders>>

parseVars == <<tls_argv, tls_pos, tls_versions, tags_in, tags_out,
               exec_in, exec_argv, exec_parsed>>

scmVars == <<lst, lst_call, lst_got, lst_closes, sock, sock_file, sock_last, sock_io>>

vars == <<spawnVars, workerVars, commandVars, serverVars, upgradeVars, parseVars, scmVars>>

Configs == [worker_count : 1..MaxWorkers, metrics : BOOLEAN]

\* --------------------------------------------------------------- framing
\* the frame Channel::write_message puts on the wire for a Config
ConfigFrame(c) == [type |-> "Config", body |-> c]
\* ... and for the ProxyRequest of start_workers
StatusFrame(i) ==
    [type |-> "ProxyRequest", id |-> <<"start-status-", i>>, order |-> "Status"]

\* Channel<ProxyResponse, Config>::read_message on a frame: the JSON of a
\* ProxyRequest is no Config
read_config(frame) ==
    IF frame.type = "Config" THEN Ok(frame.body)
    ELSE Err("worker could not read configuration from socket")

\* Worker::new
Worker_new(id, pid) == [id |-> id, pid |-> pid, run_state |-> "Running"]

\* ------------------------------------------------------------------- Init
InitWorkers ==
    /\ wpc = [w \in WorkerIds |-> "none"]
    /\ config_state = [w \in WorkerIds |-> None]
    /\ worker_config = [w \in WorkerIds |-> None]
    /\ scm_listeners = [w \in WorkerIds |-> None]
    /\ wfdt = [w \in WorkerIds |-> WorkerFdTable]
    /\ wtrace = [w \in WorkerIds |-> <<>>]
    /\ worker_end = [w \in WorkerIds |-> "none"]

InitSpawnCommon ==
    /\ state_file = [w \in WorkerIds |-> None]
    /\ chan = [w \in WorkerIds |-> <<>>]
    /\ main_end = [w \in WorkerIds |-> "none"]
    /\ scm = [w \in WorkerIds |-> <<>>]
    /\ send_result = [w \in WorkerIds |-> None]
    /\ workers = <<>>
    /\ ret = None
    /\ trace = <<>>
    /\ sockets = [w \in WorkerIds |-> None]
    /\ args = [w \in WorkerIds |-> None]

\* start_workers(executable_path, config)
InitStartWorkers ==
    /\ mode = "start_workers"
    /\ config \in Configs
    /\ index = 0
    /\ ppc = "loop"
    /\ state = ConfigState_new
    /\ listeners = Some(EmptyListeners)
    /\ pfdt = MainFdTable(EmptyListeners)

\* start_worker(id, config, executable_path, state, listeners)
InitStartWorker ==
    /\ mode = "start_worker"
    /\ config \in {c \in Configs : c.worker_count = 1}
    /\ index \in WorkerIds
    /\ ppc = "tempfile"
    /\ state \in ConfigStates
    /\ \/ /\ listeners = None
          /\ pfdt = MainFdTable(EmptyListeners)
       \/ \E l \in ListenersSet \cup {OversizedListeners} :
             /\ listeners = Some(l)
             /\ pfdt = MainFdTable(l)

\* no CLI is connected
InitCommandOff ==
    /\ cli_pc = "off"
    /\ cli_sent = None
    /\ wire_req = <<>>
    /\ decoded = None
    /\ main_state = ConfigState_new
    /\ task = None
    /\ last_task = None
    /\ to_worker = [w \in WorkerIds |-> <<>>]
    /\ processing = [w \in WorkerIds |-> FALSE]
    /\ from_worker = [w \in WorkerIds |-> <<>>]
    /\ wire_resp = <<>>
    /\ resp_sent = <<>>
    /\ cli_recv = None

\* the clients of the command server
Clients == 1..MaxClients

\* the command server of the several clients is not running
InitServerOff ==
    /\ cl_sent = [c \in Clients |-> 0]
    /\ cl_busy = [c \in Clients |-> None]
    /\ cl_resp = [c \in Clients |-> <<>>]
    /\ srv_tasks = <<>>
    /\ srv_done = <<>>
    /\ srv_config = ConfigState_new
    /\ srv_applied = [id \in Clients \X (1..MaxRequests) |-> 0]
    /\ wk_gone = [w \in WorkerIds |-> FALSE]
    /\ wk_inflight = [w \in WorkerIds |-> {}]

\* no upgrade is under way
InitUpgradeOff ==
    /\ run_state = [w \in WorkerIds |-> "None"]
    /\ up_pc = "off"
    /\ up_old = 0
    /\ up_orders = [w \in WorkerIds |-> <<>>]

\* no command line is being parsed
InitParseOff ==
    /\ tls_argv = <<>>
    /\ tls_pos = 0
    /\ tls_versions = Ok(<<>>)
    /\ tags_in = None
    /\ tags_out = None
    /\ exec_in = None
    /\ exec_argv = <<>>
    /\ exec_parsed = None

\* the fds a Listeners value of the model may hold
ListenerFds == Len(Stdio)..(Len(Stdio) + MaxListeners - 1)

\* no Listeners value is in use and no ScmSocket was made
InitScmOff ==
    /\ lst = EmptyListeners
    /\ lst_call = [op |-> "none"]
    /\ lst_got = <<>>
    /\ lst_closes = [fd \in ListenerFds |-> 0]
    /\ sock = [fd |-> -1, blocking |-> TRUE]
    /\ sock_file = FALSE
    /\ sock_last = "none"
    /\ sock_io = [flags |-> "none", mode |-> "none"]

Init ==
    /\ InitSpawnCommon
    /\ InitWorkers
    /\ InitStartWorkers \/ InitStartWorker
    /\ InitCommandOff
    /\ InitServerOff
    /\ InitUpgradeOff
    /\ InitParseOff
    /\ InitScmOff

\* ------------------------------------------- the main: fork_main_into_worker
Did(w, what) == trace' = Append(trace, <<w, what>>)

\* an error return (`?`, or the Err arm of the fork): the locals are dropped,
\* which closes the main's ends of the channels it holds
ReturnErr(e) ==
    /\ ret' = Err(e)
    /\ ppc' = "done"
    /\ workers' = <<>>
    /\ main_end' = [w \in WorkerIds |->
                      IF main_end[w] \in {"blocking", "nonblocking"} THEN "closed"
                      ELSE main_end[w]]

\* util::disable_close_on_exec(fd): clears FD_CLOEXEC
disable_close_on_exec(file) == [file EXCEPT !.cloexec = FALSE]

\* UnixStream::pair(): the two ends of a socket pair; std opens both with
\* SOCK_CLOEXEC
UnixStream_pair == <<[cloexec |-> TRUE], [cloexec |-> TRUE]>>

\* u32::to_string / i32::to_string: the decimal digits
RECURSIVE to_string(_)
to_string(n) ==
    IF n < 10 THEN <<n>> ELSE to_string(n \div 10) \o <<n % 10>>

\* str::parse::<i32> of a sequence of digits
RECURSIVE parse_int(_)
parse_int(d) ==
    IF Len(d) = 1 THEN d[1]
    ELSE 10 * parse_int(SubSeq(d, 1, Len(d) - 1)) + d[Len(d)]

\* worker_args with the id of the next worker
worker_args_off_by_one(worker_id) ==
    [id |-> to_string(worker_id + 1),
     fd |-> <<"channel">>,
     scm |-> <<"scm">>,
     configuration_state_fd |-> <<"state_file">>]

\* worker.rs:239-252  the arguments of the `worker` subcommand; the fds are
\* named by what they are open on
worker_args(worker_id) ==
    [id |-> to_string(worker_id),
     fd |-> <<"channel">>,
     scm |-> <<"scm">>,
     configuration_state_fd |-> <<"state_file">>]

\* worker.rs:189  tempfile()?
TempFile ==
    /\ ppc = "tempfile"
    /\ \/ /\ state_file' = [state_file EXCEPT
                ![index] = [content |-> <<>>, offset |-> 0, cloexec |-> TRUE]]
          /\ ppc' = "disable_cloexec_state"
          /\ UNCHANGED <<ret, workers, main_end>>
       \/ /\ ReturnErr("could not create temporary file for configuration state")
          /\ UNCHANGED state_file
    /\ UNCHANGED <<mode, config, index, state, listeners, pfdt, chan, scm,
                   send_result, trace, workerVars, commandVars, serverVars, upgradeVars, parseVars, scmVars>>
    /\ UNCHANGED <<sockets, args>>

\* worker.rs:191  util::disable_close_on_exec(state_file.as_raw_fd())?
DisableCloexecState ==
    /\ ppc = "disable_cloexec_state"
    /\ \/ /\ state_file' = [state_file EXCEPT
                ![index] = disable_close_on_exec(state_file[index])]
          /\ ppc' = "write_state"
          /\ UNCHANGED <<ret, workers, main_end>>
       \/ /\ ReturnErr("could not disable close on exec")
          /\ UNCHANGED state_file
    /\ UNCHANGED <<mode, config, index, state, listeners, pfdt, chan, scm,
                   send_result, trace, workerVars, commandVars, serverVars, upgradeVars, parseVars, scmVars>>
    /\ UNCHANGED <<sockets, args>>

\* worker.rs:193  serde_json::to_writer(&mut state_file, state)?
WriteState ==
    /\ ppc = "write_state"
    /\ \/ /\ state_file' = [state_file EXCEPT
                ![index].content = state_file[index].content \o state_to_json(state),
                ![index].offset = state_file[index].offset + Len(state_to_json(state))]
          /\ ppc' = "seek"
          /\ UNCHANGED <<ret, workers, main_end>>
       \/ /\ ReturnErr("could not write upgrade data to temporary file")
          /\ UNCHANGED state_file
    /\ UNCHANGED <<mode, config, index, state, listeners, pfdt, chan, scm,
                   send_result, trace, workerVars, commandVars, serverVars, upgradeVars, parseVars, scmVars>>
    /\ UNCHANGED <<sockets, args>>

\* worker.rs:196  state_file.seek(SeekFrom::Start(0))?
SeekNot ==
    /\ ppc = "seek"
    /\ ppc' = "socket_pairs"
    /\ UNCHANGED <<state_file, ret, workers, main_end>>
    /\ UNCHANGED <<mode, config, index, state, listeners, pfdt, chan, scm,
                   send_result, trace, workerVars, commandVars, serverVars, upgradeVars, parseVars, scmVars>>
    /\ UNCHANGED <<sockets, args>>

Seek ==
    /\ ppc = "seek"
    /\ \/ /\ state_file' = [state_file EXCEPT ![index].offset = 0]
          /\ ppc' = "socket_pairs"
          /\ UNCHANGED <<ret, workers, main_end>>
       \/ /\ ReturnErr("could not seek to beginning of file")
          /\ UNCHANGED state_file
    /\ UNCHANGED <<mode, config, index, state, listeners, pfdt, chan, scm,
                   send_result, trace, workerVars, commandVars, serverVars, upgradeVars, parseVars, scmVars>>
    /\ UNCHANGED <<sockets, args>>

\* worker.rs:200-213  the two UnixStream::pair()?, ScmSocket::new, the two
\* disable_close_on_exec(..)? of the worker's ends, Channel::new, blocking()
SocketPairs ==
    /\ ppc = "socket_pairs"
    /\ \/ /\ main_end' = [main_end EXCEPT ![index] = "blocking"]
          /\ sockets' = [sockets EXCEPT ![index] = Some(
                [main_to_worker     |-> UnixStream_pair[1],
                 worker_to_main     |-> disable_close_on_exec(UnixStream_pair[2]),
                 main_to_worker_scm |-> UnixStream_pair[1],
                 worker_to_main_scm |-> disable_close_on_exec(UnixStream_pair[2])])]
          /\ ppc' = "fork"
          /\ UNCHANGED <<ret, workers>>
       \/ /\ ReturnErr("could not create the socket pairs")
          /\ UNCHANGED sockets
    /\ UNCHANGED <<mode, config, index, state, listeners, pfdt, state_file, chan,
                   scm, send_result, trace, workerVars, commandVars, serverVars, upgradeVars, parseVars, scmVars>>
    /\ UNCHANGED args

\* worker.rs:217  fork(): Ok(Parent {child}) or Err(e); the child is at its exec
Fork ==
    /\ ppc = "fork"
    /\ \/ /\ wpc' = [wpc EXCEPT ![index] = "exec"]
          /\ args' = [args EXCEPT ![index] = Some(worker_args(index))]
          /\ ppc' = "write_config"
          /\ Did(index, "fork")
          /\ UNCHANGED <<ret, workers, main_end>>
       \/ /\ ReturnErr("fork")
          /\ UNCHANGED <<wpc, trace, args>>
    /\ UNCHANGED <<mode, config, index, state, listeners, pfdt, state_file, chan,
                   scm, send_result>>
    /\ UNCHANGED <<config_state, worker_config, scm_listeners, wfdt, wtrace, worker_end, commandVars, serverVars, upgradeVars, parseVars, scmVars>>
    /\ UNCHANGED sockets

\* WriteConfig that goes on to close the listeners without sending them
WriteConfigThenClose ==
    /\ ppc = "write_config"
    /\ \E written \in BOOLEAN :
          chan' = [chan EXCEPT ![index] =
                     IF written THEN Append(chan[index], ConfigFrame(config))
                     ELSE chan[index]]
    /\ main_end' = [main_end EXCEPT ![index] = "nonblocking"]
    /\ Did(index, "write_config")
    /\ ppc' = IF listeners.tag = "Some" THEN "close" ELSE "disable_cloexec_scm"
    /\ UNCHANGED <<mode, config, index, state, listeners, pfdt, state_file, scm,
                   send_result, workers, ret, workerVars, commandVars, serverVars, upgradeVars, parseVars, scmVars>>
    /\ UNCHANGED <<sockets, args>>

\* worker.rs:220-221  main_to_worker_channel.write_message(config), whose
\* outcome is dropped, then nonblocking()
WriteConfig ==
    /\ ppc = "write_config"
    /\ \E written \in BOOLEAN :
          chan' = [chan EXCEPT ![index] =
                     IF written THEN Append(chan[index], ConfigFrame(config))
                     ELSE chan[index]]
    /\ main_end' = [main_end EXCEPT ![index] = "nonblocking"]
    /\ Did(index, "write_config")
    /\ ppc' = IF listeners.tag = "Some" THEN "send_listeners" ELSE "disable_cloexec_scm"
    /\ UNCHANGED <<mode, config, index, state, listeners, pfdt, state_file, scm,
                   send_result, workers, ret, workerVars, commandVars, serverVars, upgradeVars, parseVars, scmVars>>
    /\ UNCHANGED <<sockets, args>>

\* worker.rs:225  let result = main_to_worker_scm.send_listeners(&listeners);
\* sendmsg may be refused by the kernel
SendListeners ==
    /\ ppc = "send_listeners"
    /\ \E refused \in BOOLEAN :
          LET result == IF refused THEN Err("sendmsg")
                        ELSE send_listeners(listeners.value, pfdt)
          IN /\ send_result' = [send_result EXCEPT ![index] =
                                  IF result.tag = "Ok" THEN Ok(<<>>) ELSE result]
             /\ scm' = [scm EXCEPT ![index] =
                          IF result.tag = "Ok" THEN Append(scm[index], result.value)
                          ELSE scm[index]]
    /\ Did(index, "send_listeners")
    /\ ppc' = "close"
    /\ UNCHANGED <<mode, config, index, state, listeners, pfdt, state_file, chan,
                   main_end, workers, ret, workerVars, commandVars, serverVars, upgradeVars, parseVars, scmVars>>
    /\ UNCHANGED <<sockets, args>>

\* worker.rs:227  listeners.close();
CloseListeners ==
    /\ ppc = "close"
    /\ pfdt' = Listeners_close(listeners.value, pfdt)
    /\ Did(index, "close")
    /\ ppc' = "disable_cloexec_scm"
    /\ UNCHANGED <<mode, config, index, state, listeners, state_file, chan,
                   main_end, scm, send_result, workers, ret, workerVars, commandVars, serverVars, upgradeVars, parseVars, scmVars>>
    /\ UNCHANGED <<sockets, args>>

\* worker.rs:229-235  util::disable_close_on_exec(main_to_worker_scm.fd)?; Ok((..))
DisableCloexecScm ==
    /\ ppc = "disable_cloexec_scm"
    /\ \/ /\ ppc' = "forked"
          /\ sockets' = [sockets EXCEPT ![index] = Some(
                [sockets[index].value EXCEPT
                    !.main_to_worker_scm = disable_close_on_exec(@)])]
          /\ UNCHANGED <<ret, workers, main_end>>
       \/ /\ ReturnErr("could not disable close on exec")
          /\ UNCHANGED sockets
    /\ UNCHANGED <<mode, config, index, state, listeners, pfdt, state_file, chan,
                   scm, send_result, trace, workerVars, commandVars, serverVars, upgradeVars, parseVars, scmVars>>
    /\ UNCHANGED args

\* worker.rs:92  start_worker: Ok(Worker::new(..))
StartWorkerReturn ==
    /\ mode = "start_worker"
    /\ ppc = "forked"
    /\ ret' = Ok(Worker_new(index, <<"pid", index>>))
    /\ ppc' = "done"
    /\ UNCHANGED <<mode, config, index, state, listeners, pfdt, state_file, chan,
                   main_end, scm, send_result, workers, trace, workerVars, commandVars, serverVars, upgradeVars, parseVars, scmVars>>
    /\ UNCHANGED <<sockets, args>>

\* worker.rs:48  for index in 0..config.worker_count; worker.rs:77 Ok(workers)
StartWorkersLoop ==
    /\ mode = "start_workers"
    /\ ppc = "loop"
    /\ IF index < config.worker_count
       THEN /\ ppc' = "tempfile"
            /\ listeners' = Some(EmptyListeners)
            /\ UNCHANGED ret
       ELSE /\ ppc' = "done"
            /\ ret' = Ok(workers)
            /\ UNCHANGED listeners
    /\ UNCHANGED <<mode, config, index, state, pfdt, state_file, chan, main_end, scm,
                   send_result, workers, trace, workerVars, commandVars, serverVars, upgradeVars, parseVars, scmVars>>
    /\ UNCHANGED <<sockets, args>>

\* worker.rs:62-74  Worker::new, then blocking(), write_message(status) whose
\* outcome is dropped, nonblocking(), workers.push(worker)
WriteStatus ==
    /\ mode = "start_workers"
    /\ ppc = "forked"
    /\ \E written \in BOOLEAN :
          chan' = [chan EXCEPT ![index] =
                     IF written THEN Append(chan[index], StatusFrame(index))
                     ELSE chan[index]]
    /\ main_end' = [main_end EXCEPT ![index] = "nonblocking"]
    /\ Did(index, "write_status")
    /\ workers' = Append(workers, Worker_new(index, <<"pid", index>>))
    /\ index' = index + 1
    /\ ppc' = "loop"
    /\ UNCHANGED <<mode, config, state, listeners, pfdt, state_file, scm,
                   send_result, ret, workerVars, commandVars, serverVars, upgradeVars, parseVars, scmVars>>
    /\ UNCHANGED <<sockets, args>>

\* ------------------------------------------- the worker: begin_worker_process
WDid(w, what) == wtrace' = [wtrace EXCEPT ![w] = Append(wtrace[w], what)]

\* what File::from_raw_fd(configuration_state_fd) yields to the reader: the
\* bytes from the offset of the open file to its end; an fd that was
\* close-on-exec is not open in the worker
file_read(file) ==
    IF file.cloexec THEN Err("EBADF")
    ELSE Ok(SubSeq(file.content, file.offset + 1, Len(file.content)))

\* serde_json::from_reader(configuration_state_file)
parse_state(file) ==
    IF file_read(file).tag = "Err" THEN file_read(file)
    ELSE state_from_json(file_read(file).value)

\* worker.rs:239-253  the child's exec of the `worker` subcommand, then
\* worker.rs:110-120  Channel::new on the inherited fd, blocking(), and
\* serde_json::from_reader(configuration_state_file)?; the read may fail
WorkerParseState(w) ==
    /\ wpc[w] = "exec"
    /\ \E io_error \in BOOLEAN :
       LET r == IF io_error THEN Err("EIO") ELSE parse_state(state_file[w])
       IN IF r.tag = "Ok"
          THEN /\ config_state' = [config_state EXCEPT ![w] = Some(r.value)]
               /\ WDid(w, "parse_state")
               /\ wpc' = [wpc EXCEPT ![w] = "read_config"]
          ELSE /\ wpc' = [wpc EXCEPT ![w] = "error"]
               /\ UNCHANGED <<config_state, wtrace>>
    /\ state_file' = [state_file EXCEPT ![w].offset = Len(state_file[w].content)]
    /\ UNCHANGED <<mode, config, index, ppc, state, listeners, pfdt, chan, main_end,
                   scm, send_result, workers, ret, trace, sockets, args>>
    /\ UNCHANGED <<worker_config, scm_listeners, wfdt, commandVars, serverVars, upgradeVars, parseVars, scmVars>>
    /\ worker_end' = [worker_end EXCEPT ![w] = "blocking"]

\* WorkerReadConfig that goes on after a failed read
WorkerReadConfigIgnoringError(w) ==
    /\ wpc[w] = "read_config"
    /\ \/ /\ chan[w] # <<>>
          /\ chan' = [chan EXCEPT ![w] = Tail(chan[w])]
          /\ LET r == read_config(Head(chan[w]))
             IN IF r.tag = "Ok"
                THEN /\ worker_config' = [worker_config EXCEPT ![w] = Some(r.value)]
                     /\ WDid(w, "read_config")
                     /\ wpc' = [wpc EXCEPT ![w] = "setup"]
                ELSE /\ wpc' = [wpc EXCEPT ![w] = "setup"]
                     /\ UNCHANGED <<worker_config, wtrace>>
       \/ /\ chan[w] = <<>>
          /\ main_end[w] = "closed"
          /\ wpc' = [wpc EXCEPT ![w] = "error"]
          /\ UNCHANGED <<chan, worker_config, wtrace>>
    /\ UNCHANGED <<mode, config, index, ppc, state, listeners, pfdt, state_file,
                   main_end, scm, send_result, workers, ret, trace, sockets, args>>
    /\ UNCHANGED <<config_state, scm_listeners, wfdt, commandVars, serverVars, upgradeVars, parseVars, scmVars>>
    /\ UNCHANGED worker_end

\* worker.rs:122-124  worker_to_main_channel.read_message()? in blocking mode:
\* waits for a frame; the peer closing the channel is an error
WorkerReadConfig(w) ==
    /\ wpc[w] = "read_config"
    /\ \/ /\ chan[w] # <<>>
          /\ chan' = [chan EXCEPT ![w] = Tail(chan[w])]
          /\ LET r == read_config(Head(chan[w]))
             IN IF r.tag = "Ok"
                THEN /\ worker_config' = [worker_config EXCEPT ![w] = Some(r.value)]
                     /\ WDid(w, "read_config")
                     /\ wpc' = [wpc EXCEPT ![w] = "setup"]
                ELSE /\ wpc' = [wpc EXCEPT ![w] = "error"]
                     /\ UNCHANGED <<worker_config, wtrace>>
       \/ /\ chan[w] = <<>>
          /\ main_end[w] = "closed"
          /\ wpc' = [wpc EXCEPT ![w] = "error"]
          /\ UNCHANGED <<chan, worker_config, wtrace>>
    /\ UNCHANGED <<mode, config, index, ppc, state, listeners, pfdt, state_file,
                   main_end, scm, send_result, workers, ret, trace, sockets, args>>
    /\ UNCHANGED <<config_state, scm_listeners, wfdt, commandVars, serverVars, upgradeVars, parseVars, scmVars>>
    /\ UNCHANGED worker_end

\* WorkerSetup that leaves the channel in blocking mode
WorkerSetupStayingBlocking(w) ==
    /\ wpc[w] = "setup"
    /\ \/ wpc' = [wpc EXCEPT ![w] = "try_new"]
       \/ /\ worker_config[w].tag = "Some"
          /\ worker_config[w].value.metrics
          /\ wpc' = [wpc EXCEPT ![w] = "error"]
    /\ UNCHANGED <<spawnVars, config_state, worker_config, scm_listeners, wfdt, wtrace, commandVars, serverVars, upgradeVars, parseVars, scmVars>>
    /\ UNCHANGED worker_end

\* worker.rs:127-163  logging, nonblocking(), metrics::setup(..)? when the
\* Config asks for metrics
WorkerSetup(w) ==
    /\ wpc[w] = "setup"
    /\ \/ wpc' = [wpc EXCEPT ![w] = "try_new"]
       \/ /\ worker_config[w].tag = "Some"
          /\ worker_config[w].value.metrics
          /\ wpc' = [wpc EXCEPT ![w] = "error"]
    /\ UNCHANGED <<spawnVars, config_state, worker_config, scm_listeners, wfdt, wtrace, commandVars, serverVars, upgradeVars, parseVars, scmVars>>
    /\ worker_end' = [worker_end EXCEPT ![w] = "nonblocking"]

\* worker.rs:165-175  Server::try_new_from_config(..)?, which takes the
\* listeners the main sent from the SCM socket (a blocking receive), then
\* server.run()
WorkerTryNew(w) ==
    /\ wpc[w] = "try_new"
    /\ \/ /\ scm[w] # <<>>
          /\ \E k \in 0..Len(Head(scm[w]).rights) :
                LET m == Head(scm[w])
                    r == receive_listeners(m, k, wfdt[w])
                IN /\ scm_listeners' = [scm_listeners EXCEPT ![w] = Some(
                          [result |-> r, sent |-> m, fd_count |-> rcv_msg(m, k, wfdt[w]).fd_count])]
                   /\ wfdt' = [wfdt EXCEPT ![w] = rcv_msg(m, k, wfdt[w]).table]
                   /\ IF r.tag = "Panic"
                      THEN /\ wpc' = [wpc EXCEPT ![w] = "panicked"]
                           /\ UNCHANGED wtrace
                      ELSE /\ wpc' = [wpc EXCEPT ![w] = "event_loop"]
                           /\ WDid(w, "event_loop")
          /\ scm' = [scm EXCEPT ![w] = Tail(scm[w])]
       \/ /\ wpc' = [wpc EXCEPT ![w] = "error"]
          /\ UNCHANGED <<scm, scm_listeners, wfdt, wtrace>>
    /\ UNCHANGED <<mode, config, index, ppc, state, listeners, pfdt, state_file, chan,
                   main_end, send_result, workers, ret, trace, sockets, args>>
    /\ UNCHANGED <<config_state, worker_config, commandVars, serverVars, upgradeVars, parseVars, scmVars>>
    /\ UNCHANGED worker_end

\* -------------------------------------------------------------------- Next
Next ==
    \/ TempFile
    \/ DisableCloexecState
    \/ WriteState
    \/ Seek
    \/ SocketPairs
    \/ Fork
    \/ WriteConfig
    \/ SendListeners
    \/ CloseListeners
    \/ DisableCloexecScm
    \/ StartWorkerReturn
    \/ StartWorkersLoop
    \/ WriteStatus
    \/ \E w \in WorkerIds : WorkerParseState(w)
    \/ \E w \in WorkerIds : WorkerReadConfig(w)
    \/ \E w \in WorkerIds : WorkerSetup(w)
    \/ \E w \in WorkerIds : WorkerTryNew(w)

Spec == Init /\ [][Next]_vars

\* the steps of the main process
MainStep ==
    \/ TempFile
    \/ DisableCloexecState
    \/ WriteState
    \/ Seek
    \/ SocketPairs
    \/ Fork
    \/ WriteConfig
    \/ SendListeners
    \/ CloseListeners
    \/ DisableCloexecScm
    \/ StartWorkerReturn
    \/ StartWorkersLoop
    \/ WriteStatus

\* the steps of the process of worker w
WorkerStep(w) ==
    \/ WorkerParseState(w)
    \/ WorkerReadConfig(w)
    \/ WorkerSetup(w)
    \/ WorkerTryNew(w)

\* the main and every worker are processes of their own, and the kernel
\* schedules each of them as long as it can run
SpecFair ==
    /\ Init
    /\ [][Next]_vars
    /\ WF_vars(MainStep)
    /\ \A w \in WorkerIds : WF_vars(WorkerStep(w))

\* =========================================================================
\* The control protocol: command/src/command.rs
\* =========================================================================
\* ------------------------------------------------------ serde_json values
Empty == [k \in {} |-> k]
JStr(x) == <<"string", x>>
JNum(n) == <<"number", n>>
JNull == <<"null">>
JObj(o) == <<"object", o>>
JArr(a) == <<"array", a>>
IsJ(j, type) == j[1] = type

\* #[serde(rename_all = "SCREAMING_SNAKE_CASE")] on the variants in use
screaming_snake_case ==
    [Proxy |-> "PROXY", SaveState |-> "SAVE_STATE", DumpState |-> "DUMP_STATE",
     ListWorkers |-> "LIST_WORKERS", UpgradeWorker |-> "UPGRADE_WORKER",
     AddCluster |-> "ADD_CLUSTER", RemoveCluster |-> "REMOVE_CLUSTER",
     Ok |-> "OK", Processing |-> "PROCESSING", Error |-> "ERROR",
     Workers |-> "WORKERS", State |-> "STATE",
     Running |-> "RUNNING", Stopping |-> "STOPPING", Stopped |-> "STOPPED",
     NotAnswering |-> "NOT_ANSWERING"]

\* the variant among `variants` that is renamed to `tag`, if any
variant_of(tag, variants) ==
    IF \E v \in variants : screaming_snake_case[v] = tag
    THEN Some(CHOOSE v \in variants : screaming_snake_case[v] = tag)
    ELSE None

\* ------------------------------------------------------- ProxyRequestOrder
\* (tag = "type", content = "data"); a Cluster is its cluster_id
ProxyOrders ==
    [variant : {"AddCluster", "RemoveCluster"}, cluster_id : ClusterIds]

proxy_order_to_json(o) ==
    JObj(("type" :> JStr(screaming_snake_case[o.variant]))
         @@ ("data" :> JObj(("cluster_id" :> JNum(o.cluster_id)))))

proxy_order_from_json(j) ==
    IF /\ IsJ(j, "object")
       /\ {"type", "data"} \subseteq DOMAIN j[2]
       /\ IsJ(j[2]["type"], "string")
       /\ variant_of(j[2]["type"][2], {"AddCluster", "RemoveCluster"}).tag = "Some"
       /\ IsJ(j[2]["data"], "object")
       /\ "cluster_id" \in DOMAIN j[2]["data"][2]
    THEN Ok([variant |-> variant_of(j[2]["type"][2], {"AddCluster", "RemoveCluster"}).value,
             cluster_id |-> j[2]["data"][2]["cluster_id"][2]])
    ELSE Err("invalid proxy order")

\* ----------------------------------------------------- CommandRequestOrder
\* command.rs:13-28, adjacently tagged (tag = "type", content = "data")
CommandRequestOrders ==
    {[variant |-> "Proxy", data |-> o] : o \in ProxyOrders}
    \cup {[variant |-> "SaveState", path |-> "/tmp/s.json"]}
    \cup {[variant |-> "DumpState"], [variant |-> "ListWorkers"]}
    \cup {[variant |-> "UpgradeWorker", data |-> w] : w \in WorkerIds}

OrderVariants == {"Proxy", "SaveState", "DumpState", "ListWorkers", "UpgradeWorker"}

\* the "type" and "data" entries of the order
order_to_json(o) ==
    ("type" :> JStr(screaming_snake_case[o.variant]))
    @@ (CASE o.variant = "Proxy" -> ("data" :> proxy_order_to_json(o.data))
          [] o.variant = "SaveState" -> ("data" :> JObj(("path" :> JStr(o.path))))
          [] o.variant = "UpgradeWorker" -> ("data" :> JNum(o.data))
          [] OTHER -> Empty)

order_from_json(obj) ==
    IF ~("type" \in DOMAIN obj /\ IsJ(obj["type"], "string"))
    THEN Err("missing field type")
    ELSE
    LET v == variant_of(obj["type"][2], OrderVariants)
    IN IF v.tag = "None" THEN Err("unknown variant")
       ELSE IF v.value \in {"DumpState", "ListWorkers"}
       THEN Ok([variant |-> v.value])
       ELSE IF "data" \notin DOMAIN obj THEN Err("missing field data")
       ELSE IF v.value = "Proxy"
       THEN (IF proxy_order_from_json(obj["data"]).tag = "Ok"
             THEN Ok([variant |-> "Proxy", data |-> proxy_order_from_json(obj["data"]).value])
             ELSE proxy_order_from_json(obj["data"]))
       ELSE IF v.value = "SaveState"
       THEN (IF /\ IsJ(obj["data"], "object")
                /\ "path" \in DOMAIN obj["data"][2]
                /\ IsJ(obj["data"][2]["path"], "string")
             THEN Ok([variant |-> "SaveState", path |-> obj["data"][2]["path"][2]])
             ELSE Err("invalid type"))
       ELSE (IF IsJ(obj["data"], "number")
             THEN Ok([variant |-> "UpgradeWorker", data |-> obj["data"][2]])
             ELSE Err("invalid type"))

\* ---------------------------------------------------------- CommandRequest
\* command.rs:38-46
CommandRequests ==
    {[id |-> "ID_TEST", version |-> v, worker_id |-> w, order |-> o] :
        v \in 0..MaxVersion,
        w \in {None} \cup {Some(i) : i \in WorkerIds},
        o \in CommandRequestOrders}

\* CommandRequest::new
CommandRequest_new(id, order, worker_id) ==
    [id |-> id, version |-> PROTOCOL_VERSION, worker_id |-> worker_id, order |-> order]

\* derive(Serialize) that never writes worker_id
request_to_json_without_worker_id(v) ==
    ("id" :> JStr(v.id))
    @@ ("version" :> JNum(v.version))
    @@ order_to_json(v.order)

\* derive(Serialize): worker_id has skip_serializing_if = "Option::is_none",
\* order is flattened into the envelope
request_to_json(v) ==
    ("id" :> JStr(v.id))
    @@ ("version" :> JNum(v.version))
    @@ (IF v.worker_id.tag = "None" THEN Empty
        ELSE ("worker_id" :> JNum(v.worker_id.value)))
    @@ order_to_json(v.order)

\* derive(Deserialize): id and version are required, version is any u8, a
\* missing or null worker_id is None, the other entries are the order
request_from_json(obj) ==
    IF ~("id" \in DOMAIN obj /\ IsJ(obj["id"], "string"))
    THEN Err("missing field id")
    ELSE IF ~("version" \in DOMAIN obj /\ IsJ(obj["version"], "number")
              /\ obj["version"][2] \in 0..255)
    THEN Err("missing field version")
    ELSE IF order_from_json(obj).tag = "Err"
    THEN order_from_json(obj)
    ELSE Ok([id |-> obj["id"][2],
             version |-> obj["version"][2],
             worker_id |-> IF "worker_id" \in DOMAIN obj /\ IsJ(obj["worker_id"], "number")
                           THEN Some(obj["worker_id"][2]) ELSE None,
             order |-> order_from_json(obj).value])

\* --------------------------------------------------------- CommandResponse
\* command.rs:130-135  WorkerInfo
worker_info_to_json(i) ==
    JObj(("id" :> JNum(i.id)) @@ ("pid" :> JNum(i.pid))
         @@ ("run_state" :> JStr(screaming_snake_case[i.run_state])))

RunStates == {"Running", "Stopping", "Stopped", "NotAnswering"}

worker_info_from_json(j) ==
    [id |-> j[2]["id"][2], pid |-> j[2]["pid"][2],
     run_state |-> variant_of(j[2]["run_state"][2], RunStates).value]

\* command.rs:67-80  CommandResponseContent, adjacently tagged
content_to_json(c) ==
    IF c.tag = "None" THEN JNull
    ELSE JObj(("type" :> JStr(screaming_snake_case[c.value.variant]))
              @@ ("data" :> IF c.value.variant = "State"
                            THEN JObj(state_to_json(c.value.data))
                            ELSE JArr(SeqMap(worker_info_to_json, c.value.data))))

content_from_json(j) ==
    IF IsJ(j, "null") THEN Ok(None)
    ELSE IF ~(IsJ(j, "object") /\ {"type", "data"} \subseteq DOMAIN j[2])
    THEN Err("invalid content")
    ELSE LET v == variant_of(j[2]["type"][2], {"State", "Workers"})
         IN IF v.tag = "None" THEN Err("unknown variant")
            ELSE IF v.value = "State"
            THEN (IF state_from_json(j[2]["data"][2]).tag = "Ok"
                  THEN Ok(Some([variant |-> "State",
                                data |-> state_from_json(j[2]["data"][2]).value]))
                  ELSE Err("invalid state"))
            ELSE Ok(Some([variant |-> "Workers",
                          data |-> SeqMap(worker_info_from_json, j[2]["data"][2])]))

\* CommandResponse::new
CommandResponse_new(id, status, message, content) ==
    [id |-> id, version |-> PROTOCOL_VERSION, status |-> status,
     message |-> message, content |-> content]

\* command.rs:89-96  derive(Serialize) / derive(Deserialize)
response_to_json(r) ==
    ("id" :> JStr(r.id))
    @@ ("version" :> JNum(r.version))
    @@ ("status" :> JStr(screaming_snake_case[r.status]))
    @@ ("message" :> JStr(r.message))
    @@ ("content" :> content_to_json(r.content))

response_from_json(obj) ==
    IF ~({"id", "version", "status", "message"} \subseteq DOMAIN obj)
    THEN Err("missing field")
    ELSE IF variant_of(obj["status"][2], {"Ok", "Processing", "Error"}).tag = "None"
    THEN Err("unknown variant")
    ELSE LET c == IF "content" \in DOMAIN obj THEN content_from_json(obj["content"])
                  ELSE Ok(None)
         IN IF c.tag = "Err" THEN c
            ELSE Ok([id |-> obj["id"][2],
                     version |-> obj["version"][2],
                     status |-> variant_of(obj["status"][2], {"Ok", "Processing", "Error"}).value,
                     message |-> obj["message"][2],
                     content |-> c.value])


\* =========================================================================
\* The command server and its CLI (spec sections 4.5, 6, 7)
\* =========================================================================
\* ConfigState apply(order)
apply(s, o) ==
    IF o.variant = "AddCluster" THEN s \cup {o.cluster_id}
    ELSE s \ {o.cluster_id}

\* the WorkerInfo of the main's worker handles, by id
WorkerInfos ==
    [i \in 1..MaxWorkers |-> [id |-> i - 1, pid |-> i - 1, run_state |-> "Running"]]

Respond(r) ==
    /\ wire_resp' = Append(wire_resp, response_to_json(r))
    /\ resp_sent' = Append(resp_sent, r)

\* a CLI is connected
InitCli ==
    /\ cli_pc = "idle"
    /\ cli_sent = None
    /\ wire_req = <<>>
    /\ decoded = None
    /\ main_state \in ConfigStates
    /\ task = None
    /\ last_task = None
    /\ to_worker = [w \in WorkerIds |-> <<>>]
    /\ processing = [w \in WorkerIds |-> FALSE]
    /\ from_worker = [w \in WorkerIds |-> <<>>]
    /\ wire_resp = <<>>
    /\ resp_sent = <<>>
    /\ cli_recv = None

\* the spawn is over
InitSpawnOff ==
    /\ mode = "none"
    /\ config \in {c \in Configs : c.worker_count = MaxWorkers /\ ~c.metrics}
    /\ index = 0
    /\ ppc = "done"
    /\ state = ConfigState_new
    /\ listeners = None
    /\ pfdt = MainFdTable(EmptyListeners)
    /\ InitSpawnCommon
    /\ InitWorkers

\* the CLI writes the envelope of a request on its channel, when it waits
\* for no answer
CliSend ==
    /\ cli_pc = "idle"
    /\ \E v \in CommandRequests :
          /\ cli_sent' = Some(v)
          /\ wire_req' = Append(wire_req, request_to_json(v))
    /\ cli_pc' = "waiting"
    /\ decoded' = None
    /\ last_task' = None
    /\ cli_recv' = None
    /\ UNCHANGED <<main_state, task, to_worker, processing, from_worker,
                   wire_resp, resp_sent>>
    /\ UNCHANGED <<spawnVars, workerVars, serverVars, upgradeVars, parseVars, scmVars>>

\* a peer writes a JSON object that is the envelope of no request
CliSendMalformed ==
    /\ cli_pc = "idle"
    /\ cli_sent' = None
    /\ wire_req' = Append(wire_req, ("id" :> JStr("ID_TEST")))
    /\ cli_pc' = "waiting"
    /\ decoded' = None
    /\ last_task' = None
    /\ cli_recv' = None
    /\ UNCHANGED <<main_state, task, to_worker, processing, from_worker,
                   wire_resp, resp_sent>>
    /\ UNCHANGED <<spawnVars, workerVars, serverVars, upgradeVars, parseVars, scmVars>>

\* the workers an order goes to: all of them, or the one of worker_id
Targets(req) ==
    IF req.worker_id.tag = "None" THEN WorkerIds ELSE {req.worker_id.value}

\* the main reads one request from the CLI: decode, version check,
\* classification; a Proxy order is fanned out to the workers
MainRead ==
    /\ wire_req # <<>>
    /\ task = None
    /\ wire_req' = Tail(wire_req)
    /\ LET d == request_from_json(Head(wire_req))
       IN /\ decoded' = Some([got |-> d, sent |-> cli_sent])
          /\ IF d.tag = "Err"
             THEN /\ cli_pc' = "closed"
                  /\ UNCHANGED <<task, last_task, to_worker, wire_resp, resp_sent>>
             ELSE IF d.value.version # PROTOCOL_VERSION
             THEN /\ Respond(CommandResponse_new(d.value.id, "Error", "protocol version", None))
                  /\ UNCHANGED <<cli_pc, task, last_task, to_worker>>
             ELSE IF d.value.order.variant = "Proxy"
             THEN /\ task' = Some([id |-> d.value.id,
                                   order |-> d.value.order.data,
                                   snapshot |-> main_state,
                                   remaining |-> Targets(d.value),
                                   results |-> Empty])
                  /\ last_task' = None
                  /\ to_worker' = [w \in WorkerIds |->
                                     IF w \in Targets(d.value)
                                     THEN Append(to_worker[w],
                                                 [id |-> d.value.id, order |-> d.value.order.data])
                                     ELSE to_worker[w]]
                  /\ UNCHANGED <<cli_pc, wire_resp, resp_sent>>
             ELSE IF d.value.order.variant = "DumpState"
             THEN /\ Respond(CommandResponse_new(d.value.id, "Ok", "",
                                Some([variant |-> "State", data |-> main_state])))
                  /\ UNCHANGED <<cli_pc, task, last_task, to_worker>>
             ELSE IF d.value.order.variant = "ListWorkers"
             THEN /\ Respond(CommandResponse_new(d.value.id, "Ok", "",
                                Some([variant |-> "Workers", data |-> WorkerInfos])))
                  /\ UNCHANGED <<cli_pc, task, last_task, to_worker>>
             ELSE /\ \E status \in {"Ok", "Error"} :
                        Respond(CommandResponse_new(d.value.id, status, "", None))
                  /\ UNCHANGED <<cli_pc, task, last_task, to_worker>>
    /\ UNCHANGED <<cli_sent, main_state, processing, from_worker, cli_recv>>
    /\ UNCHANGED <<spawnVars, workerVars, serverVars, upgradeVars, parseVars, scmVars>>

\* a worker answers the order at the head of its channel: Processing once
\* at most, then Ok or Error
WorkerAnswer(w) ==
    /\ to_worker[w] # <<>>
    /\ \E status \in {"Ok", "Error", "Processing"} :
          /\ status = "Processing" => ~processing[w]
          /\ from_worker' = [from_worker EXCEPT ![w] =
                               Append(from_worker[w],
                                      [id |-> Head(to_worker[w]).id, status |-> status])]
          /\ processing' = [processing EXCEPT ![w] = (status = "Processing")]
          /\ to_worker' = [to_worker EXCEPT ![w] =
                             IF status = "Processing" THEN to_worker[w] ELSE Tail(to_worker[w])]
    /\ UNCHANGED <<cli_pc, cli_sent, wire_req, decoded, main_state, task, last_task,
                   wire_resp, resp_sent, cli_recv>>
    /\ UNCHANGED <<spawnVars, workerVars, serverVars, upgradeVars, parseVars, scmVars>>

AllOk(results) == \A w \in DOMAIN results : results[w] = "Ok"

\* MainReply that applies the order whatever the workers answered
MainReplyApplyingAnyway(w) ==
    /\ from_worker[w] # <<>>
    /\ task.tag = "Some"
    /\ from_worker' = [from_worker EXCEPT ![w] = Tail(from_worker[w])]
    /\ LET reply == Head(from_worker[w])
           t == task.value
           results == t.results @@ (w :> reply.status)
           remaining == t.remaining \ {w}
       IN IF reply.status = "Processing"
          THEN /\ Respond(CommandResponse_new(t.id, "Processing", "", None))
               /\ UNCHANGED <<main_state, task, last_task>>
          ELSE IF remaining # {}
          THEN /\ task' = Some([t EXCEPT !.results = results, !.remaining = remaining])
               /\ UNCHANGED <<main_state, last_task, wire_resp, resp_sent>>
          ELSE /\ task' = None
               /\ last_task' = Some([t EXCEPT !.results = results, !.remaining = remaining])
               /\ main_state' = apply(main_state, t.order)
               /\ Respond(CommandResponse_new(t.id, IF AllOk(results) THEN "Ok" ELSE "Error",
                                              "", None))
    /\ UNCHANGED <<cli_pc, cli_sent, wire_req, decoded, to_worker, processing, cli_recv>>
    /\ UNCHANGED <<spawnVars, workerVars, serverVars, upgradeVars, parseVars, scmVars>>

\* the main reads a worker's reply: Processing is passed on to the CLI; Ok
\* or Error is recorded, and with the last one the task completes: the order
\* is applied to the ConfigState when all are Ok, and the CLI is answered
MainReply(w) ==
    /\ from_worker[w] # <<>>
    /\ task.tag = "Some"
    /\ from_worker' = [from_worker EXCEPT ![w] = Tail(from_worker[w])]
    /\ LET reply == Head(from_worker[w])
           t == task.value
           results == t.results @@ (w :> reply.status)
           remaining == t.remaining \ {w}
       IN IF reply.status = "Processing"
          THEN /\ Respond(CommandResponse_new(t.id, "Processing", "", None))
               /\ UNCHANGED <<main_state, task, last_task>>
          ELSE IF remaining # {}
          THEN /\ task' = Some([t EXCEPT !.results = results, !.remaining = remaining])
               /\ UNCHANGED <<main_state, last_task, wire_resp, resp_sent>>
          ELSE /\ task' = None
               /\ last_task' = Some([t EXCEPT !.results = results, !.remaining = remaining])
               /\ IF AllOk(results)
                  THEN /\ main_state' = apply(main_state, t.order)
                       /\ Respond(CommandResponse_new(t.id, "Ok", "", None))
                  ELSE /\ UNCHANGED main_state
                       /\ Respond(CommandResponse_new(t.id, "Error", "", None))
    /\ UNCHANGED <<cli_pc, cli_sent, wire_req, decoded, to_worker, processing, cli_recv>>
    /\ UNCHANGED <<spawnVars, workerVars, serverVars, upgradeVars, parseVars, scmVars>>

\* the CLI reads one response; a terminal one ends its wait
CliReceive ==
    /\ wire_resp # <<>>
    /\ wire_resp' = Tail(wire_resp)
    /\ resp_sent' = Tail(resp_sent)
    /\ LET r == response_from_json(Head(wire_resp))
       IN /\ cli_recv' = Some([got |-> r, sent |-> Head(resp_sent)])
          /\ cli_pc' = IF r.tag = "Ok" /\ r.value.status = "Processing" THEN cli_pc
                       ELSE "idle"
    /\ UNCHANGED <<cli_sent, wire_req, decoded, main_state, task, last_task,
                   to_worker, processing, from_worker>>
    /\ UNCHANGED <<spawnVars, workerVars, serverVars, upgradeVars, parseVars, scmVars>>

NextCommand ==
    \/ CliSend
    \/ CliSendMalformed
    \/ MainRead
    \/ \E w \in WorkerIds : WorkerAnswer(w)
    \/ \E w \in WorkerIds : MainReply(w)
    \/ CliReceive

\* the control plane once the workers run: the spawn is over, a CLI connects
InitCommand ==
    /\ InitSpawnOff
    /\ InitCli
    /\ InitServerOff
    /\ InitUpgradeOff
    /\ InitParseOff
    /\ InitScmOff

SpecCommand == InitCommand /\ [][NextCommand]_vars

\* =========================================================================
\* The command server with several clients (spec sections 4.5, 4.6, 5, 7)
\* =========================================================================
\* a request id: the client and the number of the request on its connection
RequestIds == Clients \X (1..MaxRequests)

\* what the clients ask: a Proxy order, fanned out to the workers, or Status,
\* which the main answers itself
ServerOrders ==
    {[variant |-> "Proxy", data |-> o] : o \in {p \in ProxyOrders : p.variant = "AddCluster" /\ p.cluster_id = 1}}
        \cup {[variant |-> "Status"]}

\* the requests read so far, all clients together
TotalSent == Cardinality({id \in RequestIds : id[2] <= cl_sent[id[1]]})

\* the workers whose channel the main has not seen close
Live == {w \in WorkerIds : ~wk_gone[w]}

\* f without the entries of ids
Without(f, ids) == [id \in DOMAIN f \ ids |-> f[id]]

\* a reader that reads the next request of a client whatever is pending
MayReadAlways(c) == TRUE

\* "does not accept the next one from that client until the current task is
\* either completed or promoted to Processing"
MayRead(c) == cl_busy[c] = None

\* the completion or promotion of request id lets its client be read again
Release(busy, ids) ==
    [c \in Clients |-> IF busy[c].tag = "Some" /\ busy[c].value \in ids THEN None ELSE busy[c]]

\* a task entry that takes no notice of the death of a worker
AfterDeathIgnored(t, w) == t

\* "worker death while a task is pending counts as Error for that worker"
AfterDeath(t, w) ==
    [t EXCEPT !.results = (w :> "Error") @@ @,
              !.remaining = @ \ {w},
              !.died = @ \cup {w}]

\* an outcome that is Ok whatever the workers answered
OutcomeOk(t) == "Ok"

\* "if all Ok .. respond Ok; otherwise respond Error"
Outcome(t) == IF AllOk(t.results) /\ ~t.timed_out THEN "Ok" ELSE "Error"

\* the record kept of a completed task
Done(t) == [fanned_out |-> t.order.variant # "Status",
            all_ok |-> t.remaining = {} /\ \A w \in DOMAIN t.results : t.results[w] = "Ok",
            died |-> t.died # {}, timed_out |-> t.timed_out, status |-> Outcome(t)]

\* the terminal responses of the tasks `ids` (all of client c), by request number
Terminals(c, ids, done) ==
    LET ns == SortedSeq({id[2] : id \in {i \in ids : i[1] = c}})
    IN [k \in 1..Len(ns) |-> [id |-> <<c, ns[k]>>, status |-> done[<<c, ns[k]>>].status]]

\* the tasks `ids` of `tasks` complete: each is answered, its order applied
\* when its outcome is Ok, its entry removed
Complete(tasks, ids) ==
    LET done == [id \in ids |-> Done(tasks[id])]
        oks == {id \in ids : done[id].status = "Ok"}
    IN /\ srv_tasks' = Without(tasks, ids)
       /\ srv_done' = done @@ srv_done
       /\ cl_resp' = [c \in Clients |-> cl_resp[c] \o Terminals(c, ids, done)]
       /\ cl_busy' = Release(cl_busy, ids)
       /\ srv_applied' = [id \in RequestIds |->
                            IF id \in oks THEN srv_applied[id] + 1 ELSE srv_applied[id]]
       /\ srv_config' = IF oks = {} THEN srv_config
                        ELSE apply(srv_config, tasks[CHOOSE id \in oks : TRUE].order)

\* the positions of the terminal responses to request id, in what its client got
TerminalsOf(id) ==
    {p \in 1..Len(cl_resp[id[1]]) :
        cl_resp[id[1]][p].id = id /\ cl_resp[id[1]][p].status \in {"Ok", "Error"}}

\* the server runs: every worker has a handle, no request was sent
InitServerOn ==
    /\ cl_sent = [c \in Clients |-> 0]
    /\ cl_busy = [c \in Clients |-> None]
    /\ cl_resp = [c \in Clients |-> <<>>]
    /\ srv_tasks = Empty
    /\ srv_done = Empty
    /\ srv_config = ConfigState_new
    /\ srv_applied = [id \in RequestIds |-> 0]
    /\ wk_gone = [w \in WorkerIds |-> FALSE]
    /\ wk_inflight = [w \in WorkerIds |-> {}]

\* the main reads the next request of a client, which wrote it without
\* waiting for the answers to the ones before: Status is answered at once; a
\* Proxy order gets a pending-task entry and is written to every live worker
ServerRead(c) ==
    /\ TotalSent < MaxRequests
    /\ MayRead(c)
    /\ cl_sent' = [cl_sent EXCEPT ![c] = @ + 1]
    /\ \E order \in ServerOrders :
       LET id == <<c, cl_sent[c] + 1>>
           t == [client |-> c,
                 order |-> IF order.variant = "Proxy" THEN order.data ELSE order,
                 remaining |-> IF order.variant = "Proxy" THEN Live ELSE {},
                 results |-> Empty, processing |-> {}, died |-> {}, timed_out |-> FALSE]
       IN IF order.variant = "Status"
          THEN /\ cl_resp' = [cl_resp EXCEPT ![c] = Append(@, [id |-> id, status |-> "Ok"])]
               /\ srv_done' = (id :> Done(t)) @@ srv_done
               /\ UNCHANGED <<cl_busy, srv_tasks, srv_config, srv_applied, wk_inflight>>
          ELSE IF Live = {}
          THEN /\ Complete((id :> t) @@ srv_tasks, {id})
               /\ UNCHANGED wk_inflight
          ELSE /\ srv_tasks' = (id :> t) @@ srv_tasks
               /\ wk_inflight' = [w \in WorkerIds |->
                                     IF w \in Live THEN wk_inflight[w] \cup {id}
                                     ELSE wk_inflight[w]]
               /\ cl_busy' = [cl_busy EXCEPT ![c] = Some(id)]
               /\ UNCHANGED <<cl_resp, srv_done, srv_config, srv_applied>>
    /\ UNCHANGED wk_gone
    /\ UNCHANGED <<spawnVars, workerVars, commandVars, upgradeVars, parseVars, scmVars>>

\* the main reads a Processing of a worker for a pending task: it is passed
\* on to the client, the task stays pending and its client may be read again
WorkerProcessing(w, id) ==
    /\ id \in DOMAIN srv_tasks
    /\ w \in srv_tasks[id].remaining \ srv_tasks[id].processing
    /\ srv_tasks' = [srv_tasks EXCEPT ![id].processing = @ \cup {w}]
    /\ cl_resp' = [cl_resp EXCEPT ![srv_tasks[id].client] =
                      Append(@, [id |-> id, status |-> "Processing"])]
    /\ cl_busy' = Release(cl_busy, {id})
    /\ UNCHANGED <<cl_sent, srv_done, srv_config, srv_applied, wk_gone, wk_inflight>>
    /\ UNCHANGED <<spawnVars, workerVars, commandVars, upgradeVars, parseVars, scmVars>>

\* the main reads the Ok or Error of a worker for an order in flight toward
\* it: the entry of the in-flight table is cleared; a reply whose task is
\* gone is dropped; another is recorded, and the last one completes the task
WorkerReply(w, id) ==
    /\ ~wk_gone[w]
    /\ id \in wk_inflight[w]
    /\ wk_inflight' = [wk_inflight EXCEPT ![w] = @ \ {id}]
    /\ \E status \in {"Ok", "Error"} :
          IF id \notin DOMAIN srv_tasks
          THEN UNCHANGED <<cl_busy, cl_resp, srv_tasks, srv_done, srv_config, srv_applied>>
          ELSE LET t == [srv_tasks[id] EXCEPT !.results = (w :> status) @@ @,
                                              !.remaining = @ \ {w}]
               IN IF t.remaining # {}
                  THEN /\ srv_tasks' = [srv_tasks EXCEPT ![id] = t]
                       /\ UNCHANGED <<cl_busy, cl_resp, srv_done, srv_config, srv_applied>>
                  ELSE Complete([srv_tasks EXCEPT ![id] = t], {id})
    /\ UNCHANGED <<cl_sent, wk_gone>>
    /\ UNCHANGED <<spawnVars, workerVars, commandVars, upgradeVars, parseVars, scmVars>>

\* the deadline of a pending task expires: it completes with an Error
\* response; the workers that did not answer are not killed
TaskTimeout(id) ==
    /\ id \in DOMAIN srv_tasks
    /\ Complete([srv_tasks EXCEPT ![id].timed_out = TRUE], {id})
    /\ UNCHANGED <<cl_sent, wk_gone, wk_inflight>>
    /\ UNCHANGED <<spawnVars, workerVars, commandVars, upgradeVars, parseVars, scmVars>>

\* a worker dies and the main sees its channel closed: every pending task
\* toward it records Error for it, its in-flight table is emptied, and the
\* tasks that waited for nobody else complete
WorkerDies(w) ==
    /\ ~wk_gone[w]
    /\ wk_gone' = [wk_gone EXCEPT ![w] = TRUE]
    /\ wk_inflight' = [wk_inflight EXCEPT ![w] = {}]
    /\ LET affected == {id \in DOMAIN srv_tasks : w \in srv_tasks[id].remaining}
           updated == [id \in DOMAIN srv_tasks |->
                         IF id \in affected THEN AfterDeath(srv_tasks[id], w)
                         ELSE srv_tasks[id]]
       IN Complete(updated, {id \in affected : updated[id].remaining = {}})
    /\ UNCHANGED cl_sent
    /\ UNCHANGED <<spawnVars, workerVars, commandVars, upgradeVars, parseVars, scmVars>>

NextServer ==
    \/ \E c \in Clients : ServerRead(c)
    \/ \E w \in WorkerIds, id \in RequestIds : WorkerProcessing(w, id)
    \/ \E w \in WorkerIds, id \in RequestIds : WorkerReply(w, id)
    \/ \E id \in RequestIds : TaskTimeout(id)
    \/ \E w \in WorkerIds : WorkerDies(w)

InitServer ==
    /\ InitSpawnOff
    /\ InitCommandOff
    /\ InitServerOn
    /\ InitUpgradeOff
    /\ InitParseOff
    /\ InitScmOff

SpecServer == InitServer /\ [][NextServer]_vars

\* =========================================================================
\* The rolling upgrade of a worker (spec sections 3 and 4.4)
\* =========================================================================
\* the worker that replaces the old one gets the next id: every id below it
\* has a handle, made by Worker::new, and one of them is the old worker
InitUpgradeOn ==
    /\ index > 0
    /\ up_old \in {w \in WorkerIds : w < index}
    /\ run_state = [w \in WorkerIds |->
                      IF w < index THEN Worker_new(w, <<"pid", w>>).run_state ELSE "None"]
    /\ up_pc = "spawn"
    /\ up_orders = [w \in WorkerIds |-> <<>>]

\* a failed spawn that the upgrade takes no notice of
UpgradeSpawnFailedGoingOn ==
    /\ up_pc = "spawn"
    /\ ppc = "done"
    /\ ret.tag = "Err"
    /\ up_pc' = "soft_stop"
    /\ UNCHANGED <<run_state, up_old, up_orders>>
    /\ UNCHANGED <<spawnVars, workerVars, commandVars, serverVars, parseVars, scmVars>>

\* "A failed spawn aborts the upgrade before touching the old worker."
UpgradeSpawnFailed ==
    /\ up_pc = "spawn"
    /\ ppc = "done"
    /\ ret.tag = "Err"
    /\ up_pc' = "aborted"
    /\ UNCHANGED <<run_state, up_old, up_orders>>
    /\ UNCHANGED <<spawnVars, workerVars, commandVars, serverVars, parseVars, scmVars>>

\* step 1 done: start_worker returned the handle of the new worker
UpgradeSpawned ==
    /\ up_pc = "spawn"
    /\ ppc = "done"
    /\ ret.tag = "Ok"
    /\ run_state' = [run_state EXCEPT ![ret.value.id] = ret.value.run_state]
    /\ up_pc' = "wait_status"
    /\ UNCHANGED <<up_old, up_orders>>
    /\ UNCHANGED <<spawnVars, workerVars, commandVars, serverVars, parseVars, scmVars>>

\* step 2: the Status reply of the new worker arrives
UpgradeStatusReply ==
    /\ up_pc = "wait_status"
    /\ up_pc' = "soft_stop"
    /\ UNCHANGED <<run_state, up_old, up_orders>>
    /\ UNCHANGED <<spawnVars, workerVars, commandVars, serverVars, parseVars, scmVars>>

\* step 2: the per-request timeout expires without a Status reply: the new
\* worker is flagged NotAnswering and nothing is sent to the old one
UpgradeStatusTimeout ==
    /\ up_pc = "wait_status"
    /\ run_state' = [run_state EXCEPT ![index] = "NotAnswering"]
    /\ up_pc' = "aborted"
    /\ UNCHANGED <<up_old, up_orders>>
    /\ UNCHANGED <<spawnVars, workerVars, commandVars, serverVars, parseVars, scmVars>>

\* a soft stop that marks the old worker Stopped before it acknowledged
UpgradeSoftStopMarkingStopped ==
    /\ up_pc = "soft_stop"
    /\ up_orders' = [up_orders EXCEPT ![up_old] = Append(@, "SoftStop")]
    /\ run_state' = [run_state EXCEPT ![up_old] = "Stopped"]
    /\ up_pc' = "draining"
    /\ UNCHANGED up_old
    /\ UNCHANGED <<spawnVars, workerVars, commandVars, serverVars, parseVars, scmVars>>

\* step 3: SoftStop is sent to the old worker, which is Stopping from then on
UpgradeSoftStop ==
    /\ up_pc = "soft_stop"
    /\ up_orders' = [up_orders EXCEPT ![up_old] = Append(@, "SoftStop")]
    /\ run_state' = [run_state EXCEPT ![up_old] = "Stopping"]
    /\ up_pc' = "draining"
    /\ UNCHANGED up_old
    /\ UNCHANGED <<spawnVars, workerVars, commandVars, serverVars, parseVars, scmVars>>

\* steps 3 and 4: the old worker acknowledges the stop, or exits, and is reaped
UpgradeStopped ==
    /\ up_pc \in {"draining", "grace"}
    /\ run_state' = [run_state EXCEPT ![up_old] = "Stopped"]
    /\ up_pc' = "done"
    /\ UNCHANGED <<up_old, up_orders>>
    /\ UNCHANGED <<spawnVars, workerVars, commandVars, serverVars, parseVars, scmVars>>

\* step 4: the drain timeout elapses: HardStop is sent to the old worker
UpgradeDrainTimeout ==
    /\ up_pc = "draining"
    /\ up_orders' = [up_orders EXCEPT ![up_old] = Append(@, "HardStop")]
    /\ up_pc' = "grace"
    /\ UNCHANGED <<run_state, up_old>>
    /\ UNCHANGED <<spawnVars, workerVars, commandVars, serverVars, parseVars, scmVars>>

\* step 4: still alive after the grace period: SIGKILL, and the pid is reaped
UpgradeKill ==
    /\ up_pc = "grace"
    /\ up_orders' = [up_orders EXCEPT ![up_old] = Append(@, "SIGKILL")]
    /\ run_state' = [run_state EXCEPT ![up_old] = "Stopped"]
    /\ up_pc' = "done"
    /\ UNCHANGED up_old
    /\ UNCHANGED <<spawnVars, workerVars, commandVars, serverVars, parseVars, scmVars>>

\* the main runs start_worker for the new worker, then goes on with the
\* old one; it does nothing else in between
NextUpgrade ==
    \/ TempFile
    \/ DisableCloexecState
    \/ WriteState
    \/ Seek
    \/ SocketPairs
    \/ Fork
    \/ WriteConfig
    \/ SendListeners
    \/ CloseListeners
    \/ DisableCloexecScm
    \/ StartWorkerReturn
    \/ UpgradeSpawnFailed
    \/ UpgradeSpawned
    \/ UpgradeStatusReply
    \/ UpgradeStatusTimeout
    \/ UpgradeSoftStop
    \/ UpgradeStopped
    \/ UpgradeDrainTimeout
    \/ UpgradeKill

InitUpgrade ==
    /\ InitSpawnCommon
    /\ InitWorkers
    /\ InitStartWorker
    /\ InitCommandOff
    /\ InitServerOff
    /\ InitUpgradeOn
    /\ InitParseOff
    /\ InitScmOff

SpecUpgrade == InitUpgrade /\ [][NextUpgrade]_vars

\* =========================================================================
\* The command line of the CLI: bin/src/cli.rs
\* =========================================================================
\* the strings given to --tls-versions
TlsStrings ==
    {"TLSv1", "TLSv1.1", "TLSv1.2", "TLSv1.3", "TLSv1.0", "tlsv1.2", "SSLv3", ""}

\* cli.rs:838-846
parse_tls_versions(i) ==
    CASE i = "TLSv1"   -> Ok("TLSv1_0")
      [] i = "TLSv1.1" -> Ok("TLSv1_1")
      [] i = "TLSv1.2" -> Ok("TLSv1_2")
      [] i = "TLSv1.3" -> Ok("TLSv1_2")
      [] OTHER         -> Err(<<"unrecognized TLS version: ", i>>)

\* the sequences over S of length at most n
SeqsUpTo(S, n) == UNION {[1..k -> S] : k \in 0..n}

\* ---- parse_tags; a string is the sequence of its characters
\* str::split(c): the pieces between the occurrences of c, at least one
RECURSIVE split(_, _)
split(s, c) ==
    LET at == {i \in 1..Len(s) : s[i] = c}
    IN IF at = {} THEN <<s>>
       ELSE LET i == CHOOSE i \in at : \A j \in at : i <= j
            IN <<SubSeq(s, 1, i - 1)>> \o split(SubSeq(s, i + 1, Len(s)), c)

\* str::trim: the string without its leading and trailing white space
trim(s) ==
    LET ns == {i \in 1..Len(s) : s[i] # " "}
    IN IF ns = {} THEN <<>>
       ELSE SubSeq(s, CHOOSE i \in ns : \A j \in ns : i <= j,
                      CHOOSE i \in ns : \A j \in ns : i >= j)

\* str::rsplit_once(c): the text before and after the last c
rsplit_once(s, c) ==
    LET at == {i \in 1..Len(s) : s[i] = c}
    IN IF at = {} THEN None
       ELSE LET i == CHOOSE i \in at : \A j \in at : i >= j
            IN Some(<<SubSeq(s, 1, i - 1), SubSeq(s, i + 1, Len(s))>>)

\* str::split_once(c): the text before and after the first c
split_once(s, c) ==
    LET at == {i \in 1..Len(s) : s[i] = c}
    IN IF at = {} THEN None
       ELSE LET i == CHOOSE i \in at : \A j \in at : i <= j
            IN Some(<<SubSeq(s, 1, i - 1), SubSeq(s, i + 1, Len(s))>>)

\* cli.rs:848-863; the BTreeMap is a function from the keys to the values
parse_tags(string_to_parse) ==
    LET segments == split(string_to_parse, ",")
        RECURSIVE loop(_, _)
        loop(tags, n) ==
            IF n > Len(segments) THEN Ok(tags)
            ELSE LET kv == split_once(trim(segments[n]), "=")
                 IN IF kv.tag = "Some"
                    THEN loop([k \in DOMAIN tags \cup {kv.value[1]} |->
                                 IF k = kv.value[1] THEN kv.value[2] ELSE tags[k]],
                              n + 1)
                    ELSE Err(<<"something went wrong while parsing the tags",
                               string_to_parse>>)
    IN loop([k \in {} |-> <<>>], 1)

\* ---- the command line of the `worker` subcommand
\* u32::to_string; a u32 is held as its value without the last decimal digit
\* (hi) and that digit (lo)
u32_to_string(v) == IF v.hi = 0 THEN <<v.lo>> ELSE to_string(v.hi) \o <<v.lo>>

\* str::parse::<i32> of decimal digits: each digit is taken in with a checked
\* multiplication and a checked addition
parse_i32(d) ==
    LET RECURSIVE fold(_, _)
        fold(acc, n) ==
            IF n > Len(d) THEN Ok(acc)
            ELSE IF acc > 2147483647 \div 10 THEN Err("PosOverflow")
            ELSE IF 10 * acc > 2147483647 - d[n] THEN Err("PosOverflow")
            ELSE fold(10 * acc + d[n], n + 1)
    IN IF d = <<>> THEN Err("Empty") ELSE fold(0, 1)

\* worker.rs:239-252: the arguments that follow `worker`, flag by flag
worker_argv(worker_id, fd, scm_fd, state_fd, command_buffer_size, max_command_buffer_size) ==
    << <<"--id", worker_id>>,
       <<"--fd", to_string(fd)>>,
       <<"--scm", to_string(scm_fd)>>,
       <<"--configuration-state-fd", to_string(state_fd)>>,
       <<"--command-buffer-size", to_string(command_buffer_size)>>,
       <<"--max-command-buffer-size", to_string(max_command_buffer_size)>> >>

\* cli.rs:42-72: the flags SubCmd::Worker declares: the field each one fills,
\* its type, and whether clap requires it (neither an Option nor a default)
WorkerFlags ==
    [f \in {"--id", "--fd", "--scm", "--configuration-state-fd",
             "--command-buffer-size", "--max-command-buffer-size"} |->
        CASE f = "--id"  -> [field |-> "id", type |-> "i32", required |-> TRUE]
          [] f = "--fd"  -> [field |-> "fd", type |-> "i32", required |-> TRUE]
          [] f = "--scm" -> [field |-> "scm", type |-> "i32", required |-> TRUE]
          [] f = "--configuration-state-fd" ->
                [field |-> "configuration_state_fd", type |-> "i32", required |-> TRUE]
          [] f = "--command-buffer-size" ->
                [field |-> "command_buffer_size", type |-> "usize", required |-> FALSE]
          [] f = "--max-command-buffer-size" ->
                [field |-> "max_command_buffer_size", type |-> "usize", required |-> FALSE]]

\* clap's parse of the arguments of `worker` into SubCmd::Worker.  The usize
\* values of the model are far below usize::MAX, their parse cannot overflow.
clap_worker(argv) ==
    LET given == {argv[i][1] : i \in 1..Len(argv)}
        text(f) == argv[CHOOSE i \in 1..Len(argv) : argv[i][1] = f][2]
        value(f) == IF WorkerFlags[f].type = "i32" THEN parse_i32(text(f))
                    ELSE Ok(parse_int(text(f)))
    IN IF ~(given \subseteq DOMAIN WorkerFlags) THEN Err("UnknownArgument")
       ELSE IF \E f \in given : value(f).tag = "Err" THEN Err("ValueValidation")
       ELSE IF \E f \in DOMAIN WorkerFlags : WorkerFlags[f].required /\ f \notin given
            THEN Err("MissingRequiredArgument")
       ELSE Ok([id |-> value("--id").value,
                fd |-> value("--fd").value,
                scm |-> value("--scm").value,
                configuration_state_fd |-> value("--configuration-state-fd").value,
                command_buffer_size |->
                    IF "--command-buffer-size" \in given
                    THEN value("--command-buffer-size").value ELSE 1000000,
                max_command_buffer_size |->
                    IF "--max-command-buffer-size" \in given
                    THEN Some(value("--max-command-buffer-size").value) ELSE None])

\* a command line with up to MaxArgs values of --tls-versions, or one with a
\* string of tags of up to MaxTagLen characters, or a start_worker about to
\* exec the worker: its id any u32 (the smallest ones, the largest one, and
\* those around i32::MAX), the child's three fds and the two buffer sizes
InitParse ==
    \/ /\ tls_argv \in SeqsUpTo(TlsStrings, MaxArgs)
       /\ tls_pos = 0
       /\ tls_versions = Ok(<<>>)
       /\ tags_in = None
       /\ tags_out = None
       /\ exec_in = None
       /\ exec_argv = <<>>
       /\ exec_parsed = None
    \/ /\ tls_argv = <<>>
       /\ tls_pos = 0
       /\ tls_versions = Ok(<<>>)
       /\ tags_in \in {Some(s) : s \in SeqsUpTo({"k", "=", ",", " "}, MaxTagLen)}
       /\ tags_out = None
       /\ exec_in = None
       /\ exec_argv = <<>>
       /\ exec_parsed = None
    \/ /\ tls_argv = <<>>
       /\ tls_pos = 0
       /\ tls_versions = Ok(<<>>)
       /\ tags_in = None
       /\ tags_out = None
       /\ exec_in \in {Some(i) : i \in
             [id : {[hi |-> 0, lo |-> 0], [hi |-> 0, lo |-> 1], [hi |-> 1, lo |-> 0],
                    [hi |-> 214748364, lo |-> 7], [hi |-> 214748364, lo |-> 8],
                    [hi |-> 429496729, lo |-> 5]},
              fd : {4, 12}, scm : {6, 14}, state_fd : {3, 1023},
              command_buffer_size : {1000000, 16384},
              max_command_buffer_size : {2000000, 16384}]}
       /\ exec_argv = <<>>
       /\ exec_parsed = None

\* the child of the fork builds the command line and execs
BuildWorkerArgv ==
    /\ exec_in.tag = "Some"
    /\ exec_argv = <<>>
    /\ LET i == exec_in.value
       IN exec_argv' = worker_argv(u32_to_string(i.id), i.fd, i.scm, i.state_fd,
                                   i.command_buffer_size, i.max_command_buffer_size)
    /\ UNCHANGED <<exec_in, exec_parsed, tags_in, tags_out, tls_argv, tls_pos, tls_versions,
                   spawnVars, workerVars, commandVars, serverVars, upgradeVars, scmVars>>

\* the exec'd binary parses its command line
ParseWorkerArgv ==
    /\ exec_argv # <<>>
    /\ exec_parsed = None
    /\ exec_parsed' = Some(clap_worker(exec_argv))
    /\ UNCHANGED <<exec_in, exec_argv, tags_in, tags_out, tls_argv, tls_pos, tls_versions,
                   spawnVars, workerVars, commandVars, serverVars, upgradeVars, scmVars>>

\* the value parser of the tags runs on the string
ParseTags ==
    /\ tags_in.tag = "Some"
    /\ tags_out = None
    /\ tags_out' = Some(parse_tags(tags_in.value))
    /\ UNCHANGED <<tags_in, exec_in, exec_argv, exec_parsed, tls_argv, tls_pos,
                   tls_versions, spawnVars, workerVars,
                   commandVars, serverVars, upgradeVars, scmVars>>

\* clap hands the next value to the value parser and pushes the TlsVersion
\* it yields on the Vec; the first error ends the parse
ParseTlsVersions ==
    /\ tls_versions.tag = "Ok"
    /\ tls_pos < Len(tls_argv)
    /\ tls_pos' = tls_pos + 1
    /\ LET r == parse_tls_versions(tls_argv[tls_pos + 1])
       IN tls_versions' = IF r.tag = "Ok" THEN Ok(Append(tls_versions.value, r.value))
                          ELSE r
    /\ UNCHANGED <<tls_argv, tags_in, tags_out, exec_in, exec_argv, exec_parsed,
                   spawnVars, workerVars, commandVars,
                   serverVars, upgradeVars, scmVars>>

NextCli ==
    \/ ParseTlsVersions
    \/ ParseTags
    \/ BuildWorkerArgv
    \/ ParseWorkerArgv

InitCliArgs ==
    /\ InitSpawnOff
    /\ InitCommandOff
    /\ InitServerOff
    /\ InitUpgradeOff
    /\ InitParse
    /\ InitScmOff

SpecCli == InitCliArgs /\ [][NextCli]_vars


\* =========================================================================
\* Listeners and ScmSocket: command/src/scm_socket.rs
\* =========================================================================
\* the addresses asked for; the three kinds may listen on the same ones
ScmAddrs == {Addr(1, 1), Addr(1, 2)}

\* the Listeners l, the entry of fd listening on a[fd]
WithAddrs(l, a) ==
    [k \in Kinds |-> [i \in 1..Len(l[k]) |-> <<a[l[k][i][2]], l[k][i][2]>>]]

\* Iterator::position(|(front, _)| front == addr), positions counted from 1
position(v, addr) ==
    LET m == {i \in 1..Len(v) : v[i][1] = addr}
    IN IF m = {} THEN None ELSE Some(CHOOSE i \in m : \A j \in m : i <= j)

\* Vec::swap_remove(pos): the last element takes the place of the removed one
Vec_swap_remove(v, pos) ==
    [i \in 1..(Len(v) - 1) |-> IF i = pos THEN v[Len(v)] ELSE v[i]]

\* Vec::remove(pos): the elements after pos move one place to the left
Vec_remove(v, pos) ==
    SubSeq(v, 1, pos - 1) \o SubSeq(v, pos + 1, Len(v))

\* scm_socket.rs:187-193, the value left in self and the value returned
get_http(l, addr) ==
    LET pos == position(l.http, addr)
    IN IF pos.tag = "Some"
       THEN [self |-> [l EXCEPT !.http = Vec_remove(l.http, pos.value)],
             ret |-> Some(l.http[pos.value][2])]
       ELSE [self |-> l, ret |-> None]

\* scm_socket.rs:195-201
get_https(l, addr) ==
    LET pos == position(l.tls, addr)
    IN IF pos.tag = "Some"
       THEN [self |-> [l EXCEPT !.tls = Vec_remove(l.tls, pos.value)],
             ret |-> Some(l.tls[pos.value][2])]
       ELSE [self |-> l, ret |-> None]

\* scm_socket.rs:203-209
get_tcp(l, addr) ==
    LET pos == position(l.tcp, addr)
    IN IF pos.tag = "Some"
       THEN [self |-> [l EXCEPT !.tcp = Vec_remove(l.tcp, pos.value)],
             ret |-> Some(l.tcp[pos.value][2])]
       ELSE [self |-> l, ret |-> None]

\* scm_socket.rs:211-229: every fd of the three vectors is closed, in order;
\* self is borrowed, the vectors keep their entries.  The fds closed, in order.
close(l) == SeqMap(Second, l.http) \o SeqMap(Second, l.tls) \o SeqMap(Second, l.tcp)

\* the flags send_msg (scm_socket.rs:123-127) and rcv_msg (144-148) pass
msg_flags(s) == IF s.blocking THEN "empty" ELSE "MSG_DONTWAIT"

\* a Listeners value of up to MaxListeners entries on distinct fds, several of
\* which may listen on one address; no ScmSocket yet
InitScmOn ==
    /\ lst \in {WithAddrs(l, a) : l \in ListenersSet, a \in [ListenerFds -> ScmAddrs]}
    /\ lst_call = [op |-> "none"]
    /\ lst_got = <<>>
    /\ lst_closes = [fd \in ListenerFds |-> 0]
    /\ sock = [fd |-> -1, blocking |-> TRUE]
    /\ sock_file \in BOOLEAN
    /\ sock_last = "none"
    /\ sock_io = [flags |-> "none", mode |-> "none"]

\* the bookkeeping of a get_* call that gave r on lst
Got(name, addr, r) ==
    /\ lst' = r.self
    /\ lst_call' = [op |-> name, addr |-> addr, ret |-> r.ret, before |-> lst]
    /\ lst_got' = IF r.ret.tag = "Some"
                  THEN Append(lst_got, [fd |-> r.ret.value,
                                        closes |-> lst_closes[r.ret.value]])
                  ELSE lst_got
    /\ UNCHANGED <<lst_closes, sock, sock_file, sock_last, sock_io, spawnVars,
                   workerVars, commandVars, serverVars, upgradeVars, parseVars>>

GetHttp == \E addr \in ScmAddrs : Got("get_http", addr, get_http(lst, addr))

GetHttps == \E addr \in ScmAddrs : Got("get_https", addr, get_https(lst, addr))

GetTcp == \E addr \in ScmAddrs : Got("get_tcp", addr, get_tcp(lst, addr))

\* Listeners::close, called at most MaxCloses times
Close ==
    /\ \A fd \in ListenerFds : lst_closes[fd] < MaxCloses
    /\ LET closed == close(lst)
           Count(fd) == Cardinality({i \in 1..Len(closed) : closed[i] = fd})
       IN lst_closes' = [fd \in ListenerFds |-> lst_closes[fd] + Count(fd)]
    /\ lst_call' = [op |-> "close"]
    /\ UNCHANGED <<lst, lst_got, sock, sock_file, sock_last, sock_io, spawnVars,
                   workerVars, commandVars, serverVars, upgradeVars, parseVars>>

\* ScmSocket::new (scm_socket.rs:26-36) on the worker's fd of the SCM socket:
\* set_nonblocking(false) may fail, the error is logged and dropped
ScmSocketNew ==
    /\ \E ok \in BOOLEAN : sock_file' = IF ok THEN FALSE ELSE sock_file
    /\ sock' = [fd |-> Len(WorkerFdTable) - 2, blocking |-> TRUE]
    /\ sock_last' = "blocking"
    /\ UNCHANGED <<lst, lst_call, lst_got, lst_closes, sock_io, spawnVars,
                   workerVars, commandVars, serverVars, upgradeVars, parseVars>>

\* ScmSocket::set_blocking (scm_socket.rs:42-50): set_nonblocking(!blocking)
\* on the fd, its error logged and dropped; self is borrowed immutably
SetBlocking ==
    /\ sock.fd # -1
    /\ \E blocking \in BOOLEAN, ok \in BOOLEAN :
          /\ sock_file' = IF ok THEN ~blocking ELSE sock_file
          /\ sock_last' = IF blocking THEN "blocking" ELSE "nonblocking"
    /\ UNCHANGED <<sock, lst, lst_call, lst_got, lst_closes, sock_io, spawnVars,
                   workerVars, commandVars, serverVars, upgradeVars, parseVars>>

\* send_msg and rcv_msg pick their flags alike
SendOrRcvMsg ==
    /\ sock.fd # -1
    /\ sock_io' = [flags |-> msg_flags(sock), mode |-> sock_last]
    /\ UNCHANGED <<sock, sock_file, sock_last, lst, lst_call, lst_got, lst_closes,
                   spawnVars, workerVars, commandVars, serverVars, upgradeVars, parseVars>>

NextScm ==
    \/ GetHttp
    \/ GetHttps
    \/ GetTcp
    \/ Close
    \/ ScmSocketNew
    \/ SetBlocking
    \/ SendOrRcvMsg

InitScm ==
    /\ InitSpawnOff
    /\ InitCommandOff
    /\ InitServerOff
    /\ InitUpgradeOff
    /\ InitParseOff
    /\ InitScmOn

SpecScm == InitScm /\ [][NextScm]_vars


\* ================================================================== claims
\* position of the main's step `what` towards worker w in the trace, 0 if absent
Pos(w, what) ==
    IF \E i \in 1..Len(trace) : trace[i] = <<w, what>>
    THEN CHOOSE i \in 1..Len(trace) : trace[i] = <<w, what>>
    ELSE 0

\* the main holds a handle of worker w
HasHandle(w) ==
    \/ \E i \in 1..Len(workers) : workers[i].id = w
    \/ mode = "start_worker" /\ ret.tag = "Ok" /\ ret.value.id = w

\* C1: a fan-out in which a worker answered Error leaves the main's
\* ConfigState as it was when the order was received, and no fan-out changes
\* it before its last reply.
C1_FanoutAtomicity ==
    /\ task.tag = "Some" => main_state = task.value.snapshot
    /\ (/\ last_task.tag = "Some"
        /\ \E w \in DOMAIN last_task.value.results : last_task.value.results[w] = "Error")
       => main_state = last_task.value.snapshot

C1_Witness ==
    /\ last_task.tag = "Some"
    /\ \E w \in DOMAIN last_task.value.results : last_task.value.results[w] = "Error"
    /\ \E w \in DOMAIN last_task.value.results : last_task.value.results[w] = "Ok"
    /\ apply(last_task.value.snapshot, last_task.value.order) # last_task.value.snapshot

C8_VersionMismatchRejectedAtDecode ==
    (/\ decoded.tag = "Some"
     /\ decoded.value.sent.tag = "Some"
     /\ decoded.value.sent.value.version # PROTOCOL_VERSION)
    => decoded.value.got.tag = "Err"

\* C2: receive_listeners on the whole message of send_listeners(L) (at most
\* MAX_FDS_OUT fds, a sidecar of at most MAX_BYTES_OUT bytes) returns, for
\* each kind, the addresses of L in order, each paired with an fd open on the
\* socket that the fd at the same position of L was open on.
SameListeners(got, sent, gotTable, sentTable) ==
    \A kind \in Kinds :
        /\ Len(got[kind]) = Len(sent[kind])
        /\ \A i \in 1..Len(sent[kind]) :
              /\ got[kind][i][1] = sent[kind][i][1]
              /\ FdObject(gotTable, got[kind][i][2]) = FdObject(sentTable, sent[kind][i][2])
              /\ FdObject(gotTable, got[kind][i][2]) # Closed

C2_ReceiveInvertsSend ==
    \A w \in WorkerIds :
        (/\ scm_listeners[w].tag = "Some"
         /\ scm_listeners[w].value.fd_count = Len(scm_listeners[w].value.sent.rights)
         /\ Len(scm_listeners[w].value.sent.rights) <= MAX_FDS_OUT
         /\ scm_listeners[w].value.sent.bytes <= MAX_BYTES_OUT)
        => /\ scm_listeners[w].value.result.tag = "Ok"
           /\ SameListeners(scm_listeners[w].value.result.value, listeners.value,
                            wfdt[w], MainFdTable(listeners.value))

C2_Witness ==
    \E w \in WorkerIds :
        /\ scm_listeners[w].tag = "Some"
        /\ scm_listeners[w].value.result.tag = "Ok"
        /\ scm_listeners[w].value.fd_count = Len(scm_listeners[w].value.sent.rights)
        /\ \A kind \in Kinds : Len(scm_listeners[w].value.result.value[kind]) >= 1

\* C3: receive_listeners returns an error whenever fewer fds were received
\* than the sidecar lists addresses.
SidecarTotal(m) == Len(m.body.http) + Len(m.body.tls) + Len(m.body.tcp)

C3_ShortFdCountIsError ==
    \A w \in WorkerIds :
        (/\ scm_listeners[w].tag = "Some"
         /\ scm_listeners[w].value.fd_count < SidecarTotal(scm_listeners[w].value.sent))
        => scm_listeners[w].value.result.tag = "Err"

\* C4 (as stated): towards every worker the main writes the initial status
\* request before it sends the listening fds, and sends them before it
\* closes its copy.
C4_StatusThenSendThenClose ==
    \A w \in WorkerIds :
        /\ Pos(w, "send_listeners") > 0 =>
              /\ Pos(w, "write_status") > 0
              /\ Pos(w, "write_status") < Pos(w, "send_listeners")
        /\ Pos(w, "close") > 0 =>
              /\ Pos(w, "send_listeners") > 0
              /\ Pos(w, "send_listeners") < Pos(w, "close")

\* C4 (amended): towards every worker the main writes the runtime Config
\* first, then sends the listening fds, then closes its copy; the initial
\* status request, which only start_workers writes, comes after the close.
\* A worker whose spawn was given listeners and returned has had all three.
C4_ConfigThenSendThenCloseThenStatus ==
    \A w \in WorkerIds :
        /\ Pos(w, "send_listeners") > 0 =>
              /\ Pos(w, "write_config") > 0
              /\ Pos(w, "write_config") < Pos(w, "send_listeners")
        /\ Pos(w, "close") > 0 =>
              /\ Pos(w, "send_listeners") > 0
              /\ Pos(w, "send_listeners") < Pos(w, "close")
        /\ Pos(w, "write_status") > 0 =>
              /\ Pos(w, "close") > 0
              /\ Pos(w, "close") < Pos(w, "write_status")
        /\ (HasHandle(w) /\ listeners.tag = "Some") => Pos(w, "close") > 0
        /\ (HasHandle(w) /\ mode = "start_worker") => Pos(w, "write_status") = 0

C4_Witness ==
    \E w \in WorkerIds :
        /\ Pos(w, "write_status") > 0
        /\ Pos(w, "close") > 0
        /\ HasHandle(w)

\* C5: the main's copies of the listening fds are closed only after
\* send_listeners has returned success: never before the send, and not when
\* the send failed.
C5_ClosedOnlyAfterSuccessfulSend ==
    \A w \in WorkerIds :
        Pos(w, "close") > 0 =>
            /\ Pos(w, "send_listeners") > 0
            /\ Pos(w, "send_listeners") < Pos(w, "close")
            /\ send_result[w].tag = "Ok"

\* C6: the spawn returns a worker handle only when the fork and the passing
\* of the listening fds both succeeded, and an error when either failed.
C6_HandleOnlyIfForkedAndSent ==
    /\ \A w \in WorkerIds :
          HasHandle(w) => /\ Pos(w, "fork") > 0
                          /\ send_result[w].tag # "Err"
    /\ (ppc = "done" /\ \E w \in WorkerIds : send_result[w].tag = "Err")
          => ret.tag = "Err"

\* C9: a worker is in its event loop only after it parsed the configuration
\* state and then read its Config; a worker that failed a step is not in the
\* event loop and never was.
PastReadConfig == {"setup", "try_new", "event_loop", "panicked"}

C9_EventLoopAfterStateThenConfig ==
    \A w \in WorkerIds :
        /\ wpc[w] \in PastReadConfig =>
              /\ config_state[w].tag = "Some"
              /\ worker_config[w].tag = "Some"
              /\ SubSeq(wtrace[w], 1, 2) = <<"parse_state", "read_config">>
        /\ wpc[w] = "event_loop" => wtrace[w] = <<"parse_state", "read_config", "event_loop">>
        /\ wpc[w] = "error" => "event_loop" \notin Range(wtrace[w])
        /\ "event_loop" \in Range(wtrace[w]) => wpc[w] = "event_loop"

C9_Witness ==
    /\ \E w \in WorkerIds : wpc[w] = "event_loop"
    /\ \E w \in WorkerIds : wpc[w] = "error" /\ config_state[w].tag = "Some"

\* C10: the ConfigState a worker deserializes is the one passed to
\* fork_main_into_worker: from the fork until the worker reads it the state
\* file holds the whole JSON of that state, at offset 0, on an inheritable
\* fd, and the main never changes its content afterwards.
C10_WorkerStateIsForkState ==
    \A w \in WorkerIds :
        /\ config_state[w].tag = "Some" => config_state[w].value = state
        /\ wpc[w] = "exec" =>
              /\ state_file[w].offset = 0
              /\ ~state_file[w].cloexec
        /\ wpc[w] # "none" => state_file[w].content = state_to_json(state)

C10_Witness ==
    \E w \in WorkerIds :
        /\ config_state[w].tag = "Some"
        /\ Cardinality(config_state[w].value) = MaxClusters

\* fork_main_into_worker has returned Ok for worker w
Spawned(w) ==
    \/ HasHandle(w)
    \/ ppc = "forked" /\ index = w

\* C11: after a worker spawn the worker-side ends of both socket pairs are
\* inheritable across exec and the main-side ends of both pairs are
\* close-on-exec in the main.
C11_WorkerEndsInheritableMainEndsCloexec ==
    \A w \in WorkerIds :
        Spawned(w) =>
            /\ sockets[w].tag = "Some"
            /\ ~sockets[w].value.worker_to_main.cloexec
            /\ ~sockets[w].value.worker_to_main_scm.cloexec
            /\ sockets[w].value.main_to_worker.cloexec
            /\ sockets[w].value.main_to_worker_scm.cloexec

\* the main-side channel of every worker spawned is nonblocking when
\* fork_main_into_worker, start_worker or start_workers has returned Ok
MainSideNonblockingOnReturn ==
    \A w \in WorkerIds :
        /\ (ppc = "forked" /\ index = w) => main_end[w] = "nonblocking"
        /\ (ppc = "done" /\ ret.tag = "Ok" /\ HasHandle(w)) => main_end[w] = "nonblocking"

\* C12 as stated: the main-side channel is nonblocking on every successful
\* return of the spawn, and the worker-side channel is nonblocking from the
\* end of the config read until and throughout the event loop.
C12_NonblockingFromEndOfConfigRead ==
    /\ MainSideNonblockingOnReturn
    /\ \A w \in WorkerIds :
          wpc[w] \in {"setup", "try_new", "event_loop"} => worker_end[w] = "nonblocking"

\* C12 amended: the main-side channel is nonblocking on every successful
\* return of the spawn; the worker-side channel is blocking while the worker
\* parses the state, reads its Config and sets up logging, and nonblocking
\* from the nonblocking() call that follows, until and throughout the
\* event loop.
C12_NonblockingAfterLoggingSetup ==
    /\ MainSideNonblockingOnReturn
    /\ \A w \in WorkerIds :
          /\ wpc[w] \in {"try_new", "event_loop"} => worker_end[w] = "nonblocking"
          /\ wpc[w] \in {"read_config", "setup"} => worker_end[w] = "blocking"

C12_Witness ==
    /\ mode = "start_workers"
    /\ ppc = "done"
    /\ ret.tag = "Ok"
    /\ \E w \in WorkerIds :
          /\ HasHandle(w)
          /\ main_end[w] = "nonblocking"
          /\ wpc[w] = "event_loop"
          /\ worker_end[w] = "nonblocking"

\* C18: every message send_listeners puts on the SCM socket carries at most
\* MAX_FDS_OUT fds and a sidecar of at most MAX_BYTES_OUT bytes, and
\* send_listeners fails on a Listeners value that exceeds either limit.
C18_MessagesWithinLimits ==
    /\ \A w \in WorkerIds :
          \A i \in 1..Len(scm[w]) :
              /\ Len(scm[w][i].rights) <= MAX_FDS_OUT
              /\ scm[w][i].bytes <= MAX_BYTES_OUT
    /\ \A w \in WorkerIds :
          (/\ send_result[w].tag = "Ok"
           /\ listeners.tag = "Some"
           /\ mode = "start_worker")
          => TotalLen(listeners.value) <= MAX_FDS_OUT

\* C19: on success start_workers returns worker_count handles whose ids are
\* 0, 1, .., worker_count - 1 in that order, each worker having been started
\* with that id on its command line.
C19_DenseIdsInOrder ==
    (mode = "start_workers" /\ ppc = "done" /\ ret.tag = "Ok") =>
        /\ Len(ret.value) = config.worker_count
        /\ \A i \in 1..Len(ret.value) :
              /\ ret.value[i].id = i - 1
              /\ args[i - 1].tag = "Some"
              /\ args[i - 1].value.id = to_string(ret.value[i].id)
              /\ parse_int(args[i - 1].value.id) = ret.value[i].id

C19_Witness ==
    /\ mode = "start_workers"
    /\ ppc = "done"
    /\ ret.tag = "Ok"
    /\ Len(ret.value) = MaxWorkers
    /\ args[MaxWorkers - 1].tag = "Some"

\* C20: parse_tls_versions maps "TLSv1" to TLSv1_0, "TLSv1.1" to TLSv1_1,
\* "TLSv1.2" to TLSv1_2 and "TLSv1.3" to TLSv1_3, and returns an error for
\* every other string.
C20_EachTlsVersionAsItself ==
    /\ tls_versions.tag = "Ok" =>
          \A i \in 1..Len(tls_versions.value) :
              /\ tls_argv[i] = "TLSv1" => tls_versions.value[i] = "TLSv1_0"
              /\ tls_argv[i] = "TLSv1.1" => tls_versions.value[i] = "TLSv1_1"
              /\ tls_argv[i] = "TLSv1.2" => tls_versions.value[i] = "TLSv1_2"
              /\ tls_argv[i] = "TLSv1.3" => tls_versions.value[i] = "TLSv1_3"
              /\ tls_argv[i] \in {"TLSv1", "TLSv1.1", "TLSv1.2", "TLSv1.3"}
    /\ tls_versions.tag = "Err" =>
          tls_argv[tls_pos] \notin {"TLSv1", "TLSv1.1", "TLSv1.2", "TLSv1.3"}

C15_AppliedOnceAfterAllOk ==
    /\ \A id \in RequestIds :
        /\ srv_applied[id] <= 1
        /\ id \notin DOMAIN srv_done => srv_applied[id] = 0 /\ TerminalsOf(id) = {}
        /\ id \in DOMAIN srv_done =>
              /\ id \notin DOMAIN srv_tasks
              /\ Cardinality(TerminalsOf(id)) = 1
              /\ \A p \in TerminalsOf(id) : cl_resp[id[1]][p].status = srv_done[id].status
              /\ srv_done[id].fanned_out =>
                    /\ srv_applied[id] = 1 <=> srv_done[id].all_ok
                    /\ srv_done[id].status = "Ok" <=> srv_done[id].all_ok
              /\ ~srv_done[id].fanned_out => srv_applied[id] = 0
    /\ srv_config # ConfigState_new <=> \E id \in RequestIds : srv_applied[id] = 1

\* one fanned-out order was applied and answered Ok after both workers said
\* Ok, another one was answered Error and not applied
C15_Witness ==
    \E a, b \in DOMAIN srv_done :
        /\ srv_applied[a] = 1 /\ ~wk_gone[0] /\ ~wk_gone[1]
        /\ srv_done[b].fanned_out /\ srv_done[b].status = "Error"

\* C16: once a worker died, its in-flight table is empty and no pending task
\* waits for it; a pending task toward it has Error recorded for it, and a
\* task that was pending toward it is answered with Error.
C16_DeadWorkerCountsAsError ==
    /\ \A w \in WorkerIds : wk_gone[w] =>
          /\ wk_inflight[w] = {}
          /\ \A id \in DOMAIN srv_tasks : w \notin srv_tasks[id].remaining
    /\ \A id \in DOMAIN srv_tasks : \A w \in srv_tasks[id].died :
          w \in DOMAIN srv_tasks[id].results /\ srv_tasks[id].results[w] = "Error"
    /\ \A id \in DOMAIN srv_done : srv_done[id].died =>
          /\ srv_done[id].status = "Error"
          /\ srv_applied[id] = 0
          /\ \E p \in TerminalsOf(id) : cl_resp[id[1]][p].status = "Error"

\* a worker died with two tasks pending toward it: one completed with Error
\* at its death, the other one still waits for the other worker
C16_Witness ==
    \E a \in DOMAIN srv_done, b \in DOMAIN srv_tasks :
        /\ srv_done[a].died /\ ~srv_done[a].timed_out
        /\ srv_tasks[b].died # {}

\* C13: the handle of the new worker starts Running, and every change of a
\* handle's run state is Running to Stopping in the step that sends SoftStop,
\* Stopping to Stopped, or a change to NotAnswering; a Stopped handle stays
\* Stopped.
C13_RunStateTransitions ==
    [][\A w \in WorkerIds :
          run_state'[w] # run_state[w] =>
             \/ run_state[w] = "None" /\ run_state'[w] = "Running"
             \/ /\ run_state[w] = "Running" /\ run_state'[w] = "Stopping"
                /\ up_orders'[w] = Append(up_orders[w], "SoftStop")
             \/ run_state[w] = "Stopping" /\ run_state'[w] = "Stopped"
             \/ run_state[w] \in {"Running", "Stopping"} /\ run_state'[w] = "NotAnswering"]_vars

\* the old worker went from Running over Stopping to Stopped, next to the new
\* worker, which is Running
C13_Witness ==
    /\ up_pc = "done"
    /\ run_state[up_old] = "Stopped"
    /\ run_state[index] = "Running"
    /\ up_orders[up_old] = <<"SoftStop">>

\* C17: the old worker has been sent an order only if start_worker returned
\* the handle of the new worker; when start_worker returned an error, the
\* upgrade goes no further, the old worker was sent nothing and is Running.
C17_StopOnlyAfterSpawn ==
    /\ up_orders[up_old] # <<>> \/ run_state[up_old] # "Running" =>
          /\ ppc = "done"
          /\ ret.tag = "Ok"
          /\ ret.value.id = index
          /\ run_state[index] # "None"
    /\ ppc = "done" /\ ret.tag = "Err" =>
          /\ up_pc \in {"spawn", "aborted"}
          /\ up_orders[up_old] = <<>>
          /\ run_state[up_old] = "Running"
          /\ run_state[index] = "None"
    /\ \A w \in WorkerIds \ {up_old} : up_orders[w] = <<>>

\* the spawn of the new worker failed and the upgrade was given up
C17_Witness ==
    /\ up_pc = "aborted"
    /\ ret.tag = "Err"
    /\ run_state[up_old] = "Running"

\* the runtime Config of worker w was written to its channel: it is in
\* flight, or the worker read it
ConfigWritten(w) ==
    \/ \E i \in 1..Len(chan[w]) : chan[w][i].type = "Config"
    \/ worker_config[w].tag = "Some"

\* C21: as long as a worker has not read its Config, what its channel holds
\* starts with the Config, and the start status request comes second: the
\* frame the worker takes where it expects the Config is the Config.
C21_ConfigFirstThenStatus ==
    \A w \in WorkerIds :
        (wpc[w] \in {"exec", "read_config"} /\ chan[w] # <<>>) =>
            /\ Head(chan[w]) = ConfigFrame(config)
            /\ \A i \in 2..Len(chan[w]) : chan[w][i] = StatusFrame(w)

\* C27: receive_listeners returns Ok or Err for every message and every
\* number of received fds: no worker is stopped by a slice index out of range.
C27_ReceiveNeverPanics ==
    \A w \in WorkerIds :
        /\ wpc[w] # "panicked"
        /\ scm_listeners[w].tag = "Some" =>
              scm_listeners[w].value.result.tag \in {"Ok", "Err"}

\* C28: the main holds a handle of a worker only if the runtime Config was
\* written to the worker's channel.
C28_HandleOnlyIfConfigWritten ==
    \A w \in WorkerIds : HasHandle(w) => ConfigWritten(w)

\* C29: start_workers returns the handles of all worker_count workers or an
\* error, and when it returned an error at worker `index` none of the workers
\* below it, which it forked, is running.
C29_AllOrNothing ==
    (mode = "start_workers" /\ ppc = "done") =>
        \/ /\ ret.tag = "Ok"
           /\ Len(ret.value) = config.worker_count
        \/ /\ ret.tag = "Err"
           /\ \A w \in WorkerIds : w < index => wpc[w] \in {"none", "error", "panicked"}

KindOf(op) ==
    CASE op = "get_http" -> "http" [] op = "get_https" -> "tls" [] op = "get_tcp" -> "tcp"

\* C24: get_http, get_https and get_tcp return the fd of the first entry of
\* their own kind whose address equals addr and remove exactly that entry: the
\* other entries of the kind keep their relative order and the two other kinds
\* are unchanged; without a match they return None and leave the Listeners
\* unchanged.  No entry is handed out twice.
C24_GetRemovesFirstMatch ==
    /\ lst_call.op \in {"get_http", "get_https", "get_tcp"} =>
          LET k == KindOf(lst_call.op)
              b == lst_call.before
              v == b[k]
              m == {i \in 1..Len(v) : v[i][1] = lst_call.addr}
          IN /\ \A o \in Kinds \ {k} : lst[o] = b[o]
             /\ m = {} => (lst_call.ret = None /\ lst = b)
             /\ m # {} => \E p \in m :
                   /\ \A j \in m : p <= j
                   /\ lst_call.ret = Some(v[p][2])
                   /\ Len(lst[k]) = Len(v) - 1
                   /\ \A i \in 1..Len(lst[k]) :
                         lst[k][i] = IF i < p THEN v[i] ELSE v[i + 1]
    /\ \A i, j \in 1..Len(lst_got) : i # j => lst_got[i].fd # lst_got[j].fd

\* get_http took the first of two entries on one address out of three entries
C24_Witness ==
    /\ lst_call.op = "get_http"
    /\ Len(lst_call.before.http) = 3
    /\ lst_call.before.http[3][1] = lst_call.addr
    /\ lst_call.before.http[2][1] # lst_call.addr
    /\ lst_call.ret = Some(lst_call.before.http[1][2])
    /\ Len(lst.http) = 2

\* C25: over any sequence of get_* and close calls on one Listeners value, each
\* fd it held is closed at most once, and an fd a get_* call returned is not
\* closed by a later close().
C25_ClosedAtMostOnce ==
    /\ \A fd \in ListenerFds : lst_closes[fd] <= 1
    /\ \A i \in 1..Len(lst_got) : lst_closes[lst_got[i].fd] = lst_got[i].closes

\* C26: after any sequence of ScmSocket::new and set_blocking calls the
\* recorded blocking flag equals the mode last set on the socket, and send_msg
\* and rcv_msg pass MSG_DONTWAIT exactly when that mode is non-blocking.
C26_FlagFollowsLastMode ==
    /\ sock.fd # -1 => (sock.blocking <=> sock_last = "blocking")
    /\ sock_io.flags # "none" =>
          (sock_io.flags = "MSG_DONTWAIT" <=> sock_io.mode = "nonblocking")

\* the comma-separated segments of s, each as the pair of the positions that
\* bound it (a comma, or the ends of s)
SegmentsOf(s) ==
    LET cuts == {0, Len(s) + 1} \cup {i \in 1..Len(s) : s[i] = ","}
    IN {p \in cuts \X cuts : p[1] < p[2] /\ ~\E c \in cuts : p[1] < c /\ c < p[2]}

\* the segment p of s without its surrounding white space
Trimmed(s, p) == trim(SubSeq(s, p[1] + 1, p[2] - 1))

HasEq(x) == \E i \in 1..Len(x) : x[i] = "="

FirstEq(x) == CHOOSE i \in 1..Len(x) : x[i] = "=" /\ \A j \in 1..(i - 1) : x[j] # "="

KeyOf(x) == SubSeq(x, 1, FirstEq(x) - 1)

ValueOf(x) == SubSeq(x, FirstEq(x) + 1, Len(x))

\* C23: parse_tags(s) succeeds if and only if every comma-separated segment of
\* s, trimmed, contains '='; on success the map holds, for each segment, the
\* text before its first '=' as key and all the text after it as value, the
\* last segment of a key giving its value; otherwise the result is an error
\* that carries no map.
C23_ParseTags ==
    tags_out.tag = "Some" =>
        LET s == tags_in.value
            r == tags_out.value
            segs == SegmentsOf(s)
        IN /\ r.tag = "Ok" <=> \A p \in segs : HasEq(Trimmed(s, p))
           /\ r.tag = "Ok" =>
                 /\ DOMAIN r.value = {KeyOf(Trimmed(s, p)) : p \in segs}
                 /\ \A p \in segs :
                       (~\E q \in segs : /\ q[1] > p[1]
                                         /\ KeyOf(Trimmed(s, q)) = KeyOf(Trimmed(s, p)))
                       => r.value[KeyOf(Trimmed(s, p))] = ValueOf(Trimmed(s, p))
           /\ r.tag # "Ok" => (r.tag = "Err" /\ DOMAIN r = {"tag", "error"})

\* "k=,k==": two segments with one key, the value of the second one being
\* "=": the map has that key alone, with the second value
C23_Witness ==
    /\ tags_in = Some(<<"k", "=", ",", "k", "=", "=">>)
    /\ tags_out = Some(Ok([x \in {<<"k">>} |-> <<"=">>]))

====
